---------------------------- MODULE Spec2Model ----------------------------
(***************************************************************************)
(* A model of the geometry core of python-planar-magnetics:                *)
(*   planar_magnetics/geometry.py   Point, Arc, Polygon                     *)
(*   planar_magnetics/smoothing.py  smooth_point_to_arc, round_corner,      *)
(*                                  smooth_polygon                          *)
(*   planar_magnetics/windings/spirals.py  calc_trace_widths, Spiral        *)
(*                                                                         *)
(* The code computes in double precision.  The model computes in exact     *)
(* rational arithmetic: a number is a reduced fraction [n, d], an angle is *)
(* a whole number of quarter turns plus a first-quadrant direction.  Inputs *)
(* are drawn from families on which every square root the code takes is    *)
(* rational and no comparison of the code is decided by a rounding         *)
(* residue, so that the two evaluations take the same branches.            *)
(***************************************************************************)
EXTENDS Integers, Sequences, FiniteSets, TLC

(***************************************************************************)
(* Integers                                                                *)
(***************************************************************************)
Abs(x) == IF x < 0 THEN -x ELSE x

Max(a, b) == IF a >= b THEN a ELSE b

Min(a, b) == IF a <= b THEN a ELSE b

Sign(x) == IF x < 0 THEN -1 ELSE IF x > 0 THEN 1 ELSE 0

RECURSIVE GCDNat(_, _)
GCDNat(a, b) == IF b = 0 THEN a ELSE GCDNat(b, a % b)

GCD(a, b) == GCDNat(Abs(a), Abs(b))

RECURSIVE ISqrtIn(_, _, _)
\* the largest r in lo..hi with r*r <= n (bisection)
ISqrtIn(n, lo, hi) ==
    IF lo >= hi THEN lo
    ELSE LET mid == (lo + hi + 1) \div 2
         IN  IF mid * mid <= n THEN ISqrtIn(n, mid, hi)
                               ELSE ISqrtIn(n, lo, mid - 1)

ISqrt(n) == ISqrtIn(n, 0, Min(n, 46340))

IsSquare(n) == n >= 0 /\ ISqrt(n) * ISqrt(n) = n

RECURSIVE Pow(_, _)
Pow(b, e) == IF e = 0 THEN 1 ELSE b * Pow(b, e - 1)

(***************************************************************************)
(* Rationals: Python floats, evaluated exactly                             *)
(***************************************************************************)
Rat(n, d) ==
    LET g == GCD(n, d)
        s == IF d < 0 THEN -1 ELSE 1
    IN  [n |-> s * (n \div g), d |-> s * (d \div g)]

R(n) == [n |-> n, d |-> 1]

RAdd(a, b) == Rat(a.n * b.d + b.n * a.d, a.d * b.d)

RSub(a, b) == Rat(a.n * b.d - b.n * a.d, a.d * b.d)

RMul(a, b) == Rat(a.n * b.n, a.d * b.d)

\* a / b for b # 0 (the callers raise ZeroDivisionError before dividing by 0)
RDiv(a, b) == Rat(a.n * b.d, a.d * b.n)

RNeg(a) == [n |-> -a.n, d |-> a.d]

RAbs(a) == [n |-> Abs(a.n), d |-> a.d]

RLt(a, b) == a.n * b.d < b.n * a.d

RLe(a, b) == a.n * b.d <= b.n * a.d

RIsZero(a) == a.n = 0

RMax(a, b) == IF RLt(a, b) THEN b ELSE a

\* math.sqrt is rational exactly on these arguments
RIsSquare(a) == a.n >= 0 /\ IsSquare(a.n) /\ IsSquare(a.d)

\* math.sqrt(a), for a with RIsSquare(a)
RSqrt(a) == Rat(ISqrt(a.n), ISqrt(a.d))

\* rel_tol of math.isclose, as 1 / RelTolInv
RelTolInv == 1000000000

\* math.isclose(a, b): abs(a - b) <= rel_tol * max(abs(a), abs(b)), abs_tol = 0
isclose(a, b) ==
    LET x == a.n * b.d
        y == b.n * a.d
    IN  Abs(x - y) <= Max(Abs(x), Abs(y)) \div RelTolInv

(***************************************************************************)
(* Angles.  The float value n * pi/2 + atan2(s, c) with c > 0, s >= 0: a   *)
(* whole number n of quarter turns plus a direction (c, s) in the first    *)
(* quadrant (the residual is in [0, pi/2)).  Angles are not normalised to   *)
(* one turn: n is unbounded, as the code's angles are.                     *)
(***************************************************************************)
Ang(n, c, s) ==
    LET g == GCD(c, s)
    IN  [n |-> n, c |-> c \div g, s |-> s \div g]

\* k quarter turns
Quarter(k) == [n |-> k, c |-> 1, s |-> 0]

Zero == Quarter(0)

\* useful geometric constants of geometry.py, in quarter turns
TWO_PI == 4

PI_OVER_TWO == 1

PI == 2

\* a + k * pi/2
AngTurn(a, k) == [n |-> a.n + k, c |-> a.c, s |-> a.s]

AngLt(a, b) == a.n < b.n \/ (a.n = b.n /\ a.s * b.c < b.s * a.c)

AngGt(a, b) == AngLt(b, a)

AngNeg(a) ==
    IF a.s = 0 THEN Quarter(-a.n) ELSE [n |-> -a.n - 1, c |-> a.s, s |-> a.c]

AngAdd(a, b) ==
    LET re == a.c * b.c - a.s * b.s
        im == a.c * b.s + a.s * b.c
    IN  IF re > 0 THEN Ang(a.n + b.n, re, im)
                  ELSE Ang(a.n + b.n + 1, im, -re)

AngSub(a, b) == AngAdd(a, AngNeg(b))

\* same direction: the angles differ by whole turns
SameDirection(a, b) == a.c = b.c /\ a.s = b.s /\ (a.n - b.n) % 4 = 0

\* math.cos / math.sin are rational exactly on these angles
AngIsRational(a) == IsSquare(a.c * a.c + a.s * a.s)

\* math.cos(a) and math.sin(a), for a with AngIsRational(a)
Cos(a) ==
    LET h == ISqrt(a.c * a.c + a.s * a.s)
        k == a.n % 4
    IN  CASE k = 0 -> Rat(a.c, h)
          [] k = 1 -> Rat(-a.s, h)
          [] k = 2 -> Rat(-a.c, h)
          [] OTHER -> Rat(a.s, h)

Sin(a) ==
    LET h == ISqrt(a.c * a.c + a.s * a.s)
        k == a.n % 4
    IN  CASE k = 0 -> Rat(a.s, h)
          [] k = 1 -> Rat(a.c, h)
          [] k = 2 -> Rat(-a.s, h)
          [] OTHER -> Rat(-a.c, h)

\* math.atan2(y, x), in (-pi, pi]; only the direction of (x, y) matters
atan2(y, x) ==
    LET yi == y.n * x.d
        xi == x.n * y.d
    IN  CASE xi = 0 /\ yi = 0  -> Zero
          [] xi > 0 /\ yi >= 0 -> Ang(0, xi, yi)
          [] xi <= 0 /\ yi > 0 -> Ang(1, yi, -xi)
          [] xi < 0 /\ yi = 0  -> Quarter(2)
          [] xi < 0 /\ yi < 0  -> Ang(-2, -xi, -yi)
          [] OTHER             -> Ang(-1, -yi, xi)

\* math.asin is defined on [-1, 1] (ValueError outside) and rational on these
AsinInDomain(v) == RLe(RAbs(v), R(1))

AsinIsRational(v) == RIsSquare(RSub(R(1), RMul(v, v)))

\* math.asin(v), in [-pi/2, pi/2], for v with AsinIsRational(v)
asin(v) ==
    LET sq == RSqrt(RSub(R(1), RMul(v, v)))
    IN  CASE sq.n = 0 -> Quarter(Sign(v.n))
          [] v.n >= 0 -> Ang(0, sq.n * v.d, v.n * sq.d)
          [] OTHER    -> Ang(-1, (-v.n) * sq.d, sq.n * v.d)

(***************************************************************************)
(* geometry.py: Point                                                      *)
(***************************************************************************)
Point(x, y) == [kind |-> "Point", x |-> x, y |-> y]

PointAdd(p, q) == Point(RAdd(p.x, q.x), RAdd(p.y, q.y))

PointSub(p, q) == Point(RSub(p.x, q.x), RSub(p.y, q.y))

\* abs(p) ** 2
Norm2(p) == RAdd(RMul(p.x, p.x), RMul(p.y, p.y))

\* abs(p), for p with RIsSquare(Norm2(p))
PointAbs(p) == RSqrt(Norm2(p))

PointEq(p, q) == isclose(p.x, q.x) /\ isclose(p.y, q.y)

PointNe(p, q) == ~PointEq(p, q)

point_from_polar(radius, angle) ==
    Point(RMul(radius, Cos(angle)), RMul(radius, Sin(angle)))

\* the numerator of get_oriented_distance
Cross(p0, p1, p2) ==
    LET p21 == PointSub(p2, p1)
        p10 == PointSub(p1, p0)
    IN  RSub(RMul(p21.x, p10.y), RMul(p21.y, p10.x))

\* get_oriented_distance(p0, p1, p2), for p1 # p2 at a rational distance
get_oriented_distance(p0, p1, p2) ==
    RDiv(Cross(p0, p1, p2), PointAbs(PointSub(p2, p1)))

get_distance(p0, p1, p2) == RAbs(get_oriented_distance(p0, p1, p2))

(***************************************************************************)
(* geometry.py: Arc.  start and end are the derived fields of               *)
(* __post_init__, functions of the four constructor arguments.             *)
(***************************************************************************)
Arc(center, radius, start_angle, end_angle) ==
    [kind |-> "Arc", center |-> center, radius |-> radius,
     start_angle |-> start_angle, end_angle |-> end_angle]

ArcStart(arc) == PointAdd(arc.center, point_from_polar(arc.radius, arc.start_angle))

ArcEnd(arc) == PointAdd(arc.center, point_from_polar(arc.radius, arc.end_angle))

rotates_clockwise(arc) == AngLt(arc.end_angle, arc.start_angle)

rotates_counterclockwise(arc) == AngGt(arc.end_angle, arc.start_angle)

reverse(arc) == Arc(arc.center, arc.radius, arc.end_angle, arc.start_angle)

IsArc(e) == e.kind = "Arc"

IsPoint(e) == e.kind = "Point"

(***************************************************************************)
(* smoothing.py: smooth_point_to_arc.  The operators below are its local   *)
(* variables, in the order the function computes them.                     *)
(***************************************************************************)
None == [kind |-> "None"]

Raise(e) == [kind |-> "Raise", exc |-> e]

IsRaise(v) == v.kind = "Raise"

\* p1 = point - arc.center
SpaP1(point, arc) == PointSub(point, arc.center)

\* p2 = arc.start - arc.center
SpaP2(arc) == PointSub(ArcStart(arc), arc.center)

\* segment_angle: the angle of the vector p1 to p2
SegmentAngle(p1, p2) == atan2(RSub(p2.y, p1.y), RSub(p2.x, p1.x))

\* arc_angle: the initial angle that the arc is pointing
ArcAngle(arc) ==
    IF rotates_clockwise(arc) THEN AngTurn(arc.start_angle, -PI_OVER_TWO)
                              ELSE AngTurn(arc.start_angle, PI_OVER_TWO)

\* a0
SpaA0(p2) == atan2(p2.y, p2.x)

\* corner_inside_arc
CornerInsideArc(segment_angle, a0) ==
    ~(AngGt(segment_angle, AngTurn(a0, PI_OVER_TWO))
      \/ AngLt(segment_angle, AngTurn(a0, -PI_OVER_TWO)))

\* center_to_center
CenterToCenter(corner_inside_arc, arc, radius) ==
    IF corner_inside_arc THEN RSub(arc.radius, radius)
                         ELSE RAdd(arc.radius, radius)

\* math.isclose(segment_angle, arc_angle): angles of the model that are not
\* equal differ by far more than the relative tolerance
AlreadyTangential(segment_angle, arc) == segment_angle = ArcAngle(arc)

\* positive_orientation
PositiveOrientation(arc, corner_inside_arc) ==
    rotates_clockwise(arc) = corner_inside_arc

\* delta
SpaDelta(positive_orientation, p1, p2) ==
    IF positive_orientation THEN PointSub(p2, p1) ELSE PointSub(p1, p2)

\* alpha without the sign of delta.x
SpaAlphaUnsigned(delta) == atan2(delta.y, delta.x)

\* alpha
SpaAlpha(delta) == atan2(delta.y, RNeg(delta.x))

\* the locals of lines 48-90, from segment_angle and a0 on
SpaHeadFrom(p1, p2, segment_angle, a0, arc, radius) ==
    [ p1 |-> p1,
      p2 |-> p2,
      segment_angle |-> segment_angle,
      a0 |-> a0,
      corner_inside_arc |-> CornerInsideArc(segment_angle, a0),
      center_to_center |-> CenterToCenter(CornerInsideArc(segment_angle, a0), arc, radius),
      already_tangential |-> AlreadyTangential(segment_angle, arc),
      positive_orientation |-> PositiveOrientation(arc, CornerInsideArc(segment_angle, a0)),
      delta |-> SpaDelta(PositiveOrientation(arc, CornerInsideArc(segment_angle, a0)),
                         p1, p2) ]

SpaHeadAt(p1, p2, arc, radius) ==
    SpaHeadFrom(p1, p2, SegmentAngle(p1, p2), SpaA0(p2), arc, radius)

\* the locals of smooth_point_to_arc(point, arc, radius) that need no
\* division, square root or arc sine
SpaHead(point, arc, radius) == SpaHeadAt(SpaP1(point, arc), SpaP2(arc), arc, radius)

\* the argument of math.asin, for center_to_center # 0 and R # 0
AsinArg(h, radius) ==
    LET RR  == PointAbs(h.delta)
        num == RAdd(RSub(RMul(radius, RR), RMul(h.delta.x, h.p1.y)),
                    RMul(h.delta.y, h.p1.x))
    IN  RDiv(RDiv(num, h.center_to_center), RR)

\* angle: the angle of the vector from center to center, a the arc sine
SpaAngle(arc, a, alpha) ==
    IF rotates_clockwise(arc)
    THEN AngSub(AngSub(Quarter(PI), a), alpha)
    ELSE AngSub(a, alpha)

\* center of the corner
CornerCenter(center_to_center, angle, arc) ==
    PointAdd(point_from_polar(center_to_center, angle), arc.center)

\* start_angle, before the rotation is corrected
CornerStartAngle(positive_orientation, segment_angle) ==
    IF positive_orientation
    THEN AngTurn(segment_angle, PI_OVER_TWO)
    ELSE AngTurn(segment_angle, -PI_OVER_TWO)

\* end_angle, before the rotation is corrected
CornerEndAngle(corner_inside_arc, angle) ==
    IF corner_inside_arc THEN angle
    ELSE IF AngLt(angle, Zero) THEN AngTurn(angle, PI)
         ELSE AngTurn(angle, -PI)

\* the arc of the angles as they were computed
UncorrectedRotation(positive_orientation, center, radius, start_angle, end_angle) ==
    Arc(center, radius, start_angle, end_angle)

\* lines 133-150: make sure the arc rotates in the correct direction
CorrectRotation(positive_orientation, center, radius, start_angle, end_angle) ==
    IF positive_orientation
    THEN IF AngGt(start_angle, end_angle)
         THEN Arc(center, radius, start_angle, end_angle)
         ELSE IF AngLt(start_angle, Zero)
              THEN Arc(center, radius, AngTurn(start_angle, TWO_PI), end_angle)
              ELSE Arc(center, radius, start_angle, AngTurn(end_angle, -TWO_PI))
    ELSE IF AngLt(start_angle, end_angle)
         THEN Arc(center, radius, start_angle, end_angle)
         ELSE IF AngGt(start_angle, Zero)
              THEN Arc(center, radius, AngTurn(start_angle, -TWO_PI), end_angle)
              ELSE Arc(center, radius, start_angle, AngTurn(end_angle, TWO_PI))

\* the exception smooth_point_to_arc raises, "none" for a normal return
SpaException(h, radius) ==
    CASE h.already_tangential -> "none"
      [] RIsZero(h.center_to_center) -> "ZeroDivisionError"
      [] RIsZero(Norm2(h.delta)) -> "ZeroDivisionError"
      [] ~AsinInDomain(AsinArg(h, radius)) -> "ValueError"
      [] OTHER -> "none"

\* the locals of lines 98-131, from angle on
SpaTailFrom(h, arc, angle) ==
    [ angle |-> angle,
      center |-> CornerCenter(h.center_to_center, angle, arc),
      start_angle |-> CornerStartAngle(h.positive_orientation, h.segment_angle),
      end_angle |-> CornerEndAngle(h.corner_inside_arc, angle) ]

SpaTail(h, arc, radius) ==
    SpaTailFrom(h, arc, SpaAngle(arc, asin(AsinArg(h, radius)), SpaAlpha(h.delta)))

\* lines 133-150
SpaReturn(h, t, radius) ==
    CorrectRotation(h.positive_orientation, t.center, radius, t.start_angle, t.end_angle)

\* smooth_point_to_arc from the locals h on
SpaBody(h, arc, radius) ==
    CASE SpaException(h, radius) # "none" -> Raise(SpaException(h, radius))
      [] h.already_tangential -> None
      [] OTHER -> SpaReturn(h, SpaTail(h, arc, radius), radius)

smooth_point_to_arc(point, arc, radius) ==
    SpaBody(SpaHead(point, arc, radius), arc, radius)

(***************************************************************************)
(* smoothing.py: round_corner                                              *)
(***************************************************************************)
RECURSIVE WhileGreaterSubtract(_, _)
\* while angle > bound: angle -= TWO_PI
WhileGreaterSubtract(angle, bound) ==
    IF AngGt(angle, bound) THEN WhileGreaterSubtract(AngTurn(angle, -TWO_PI), bound)
                           ELSE angle

RECURSIVE WhileLessAdd(_, _)
\* while angle < bound: angle += TWO_PI
WhileLessAdd(angle, bound) ==
    IF AngLt(angle, bound) THEN WhileLessAdd(AngTurn(angle, TWO_PI), bound)
                           ELSE angle

\* a test that finds no junction continuous
NeverContinuous(arc1, arc2) == FALSE

\* line 156: the transition from the end of arc1 is continuous
ContinuousFromArc1(arc1, arc2) ==
    isclose(arc1.radius, get_distance(arc1.center, ArcEnd(arc1), ArcStart(arc2)))

\* line 179: the transition to the start of arc2 is continuous
ContinuousToArc2(arc1, arc2) ==
    isclose(arc2.radius, get_distance(arc2.center, ArcEnd(arc1), ArcStart(arc2)))

\* line 161, before .reverse()
Corner1(arc1, arc2, radius) == smooth_point_to_arc(ArcStart(arc2), reverse(arc1), radius)

\* line 184
Corner2(arc1, arc2, radius) == smooth_point_to_arc(ArcEnd(arc1), arc2, radius)

\* lines 163-174: arc1 trimmed to stop where the corner begins
TrimArc1(arc1, corner) ==
    Arc(arc1.center, arc1.radius, arc1.start_angle,
        IF rotates_clockwise(arc1)
        THEN WhileGreaterSubtract(corner.start_angle, arc1.start_angle)
        ELSE WhileLessAdd(corner.start_angle, arc1.start_angle))

\* line 186: abs(corner.center - arc2.center) < arc2.radius
CornerWithinArc2(corner, arc2) ==
    RLt(PointAbs(PointSub(corner.center, arc2.center)), arc2.radius)

\* lines 186-189: start_angle
TrimStartAngle(arc2, corner) ==
    IF CornerWithinArc2(corner, arc2) THEN corner.end_angle
                                      ELSE AngTurn(corner.end_angle, -PI)

\* lines 186-201: arc2 trimmed to start where the corner ends
TrimArc2(arc2, corner) ==
    Arc(arc2.center, arc2.radius,
        IF rotates_clockwise(arc2)
        THEN WhileLessAdd(TrimStartAngle(arc2, corner), arc2.end_angle)
        ELSE WhileGreaterSubtract(TrimStartAngle(arc2, corner), arc2.end_angle),
        arc2.end_angle)

Returns(arcs) == [exc |-> "none", arcs |-> arcs]

Raises(e) == [exc |-> e, arcs |-> << >>]

\* lines 161-176: corner = smooth_point_to_arc(...).reverse() and the trim
FirstHalfWith(arc1, c) ==
    CASE IsRaise(c) -> Raises(c.exc)
      [] c.kind = "None" -> Raises("AttributeError")
      [] OTHER -> Returns(<<TrimArc1(arc1, reverse(c)), reverse(c)>>)

\* lines 155-176: the list arcs after the first half
FirstHalf(arc1, arc2, radius) ==
    IF ContinuousFromArc1(arc1, arc2)
    THEN Returns(<<arc1>>)
    ELSE FirstHalfWith(arc1, Corner1(arc1, arc2, radius))

\* lines 184-201: corner = smooth_point_to_arc(...) and the trim
SecondHalfWith(arcs, arc2, c) ==
    CASE IsRaise(c) -> Raises(c.exc)
      [] c.kind = "None" -> Raises("AttributeError")
      [] OTHER -> Returns(arcs \o <<c, TrimArc2(arc2, c)>>)

\* lines 178-203
SecondHalf(arcs, arc1, arc2, radius) ==
    IF ContinuousToArc2(arc1, arc2)
    THEN Returns(arcs \o <<arc2>>)
    ELSE SecondHalfWith(arcs, arc2, Corner2(arc1, arc2, radius))

\* round_corner once the first half is done
RoundCornerFrom(first, arc1, arc2, radius) ==
    IF first.exc # "none" THEN first
    ELSE SecondHalf(first.arcs, arc1, arc2, radius)

round_corner(arc1, arc2, radius) ==
    CASE ~IsArc(arc1) \/ ~IsArc(arc2) -> Raises("AttributeError")
      [] PointSub(ArcStart(arc2), ArcEnd(arc1)) = Point(R(0), R(0)) ->
            Raises("ZeroDivisionError")
      [] OTHER -> RoundCornerFrom(FirstHalf(arc1, arc2, radius), arc1, arc2, radius)

(***************************************************************************)
(* The inputs of the model.  On a representable input the real-number      *)
(* evaluation above is the double-precision evaluation of the code up to   *)
(* rounding: every math.sqrt, math.cos, math.sin and math.asin is rational, *)
(* and no comparison is taken between two equal reals, where the code's    *)
(* branch is decided by the rounding residue of cos and sin.               *)
(***************************************************************************)
\* math.atan2(y, x) away from its cut: not on the negative x axis, not (0, 0)
Atan2Decided(y, x) == ~(y.n = 0 /\ x.n <= 0)

\* smooth_point_to_arc after the "already tangential" test
SpaBodyRepresentable(h) ==
    /\ h.segment_angle # AngTurn(h.a0, PI_OVER_TWO)
    /\ h.segment_angle # AngTurn(h.a0, -PI_OVER_TWO)
    /\ RIsSquare(Norm2(h.delta))
    /\ Atan2Decided(h.delta.y, RNeg(h.delta.x))

\* the rest of smooth_point_to_arc, when it reaches the asin and returns
SpaTailRepresentable(h, t, v) ==
    /\ AsinIsRational(v)
    /\ RAbs(v) # R(1)
    /\ ~h.corner_inside_arc => t.angle # Zero
    /\ t.start_angle # Zero
    /\ t.start_angle # t.end_angle

SpaRepresentableAt(h, arc, radius) ==
    /\ Atan2Decided(RSub(h.p2.y, h.p1.y), RSub(h.p2.x, h.p1.x))
    /\ Atan2Decided(h.p2.y, h.p2.x)
    /\ ~h.already_tangential =>
          /\ SpaBodyRepresentable(h)
          /\ SpaException(h, radius) = "none"
                => /\ AsinIsRational(AsinArg(h, radius))
                   /\ SpaTailRepresentable(h, SpaTail(h, arc, radius), AsinArg(h, radius))

SpaRepresentable(point, arc, radius) ==
    /\ AngIsRational(arc.start_angle)
    /\ SpaRepresentableAt(SpaHead(point, arc, radius), arc, radius)

\* two input arcs that meet in one and the same float point: the same circle
\* and angle, or angle 0 on both (cos 0 = 1 and sin 0 = 0 are exact and the
\* centers and radii of the model are integers)
SameJunctionPoint(arc1, arc2) ==
    \/ /\ arc1.center = arc2.center
       /\ arc1.radius = arc2.radius
       /\ arc1.end_angle = arc2.start_angle
    \/ /\ arc1.end_angle = Zero
       /\ arc2.start_angle = Zero

IsCorner(c) == c.kind = "Arc"

\* the trim of arc1 is decided: its loop compares two different directions
Corner1Representable(arc1, c) ==
    IsCorner(c) => ~SameDirection(c.end_angle, arc1.start_angle)

\* the trim of arc2 is decided
Corner2Representable(arc2, c) ==
    IsCorner(c) =>
        /\ PointAbs(PointSub(c.center, arc2.center)) # arc2.radius
        /\ ~SameDirection(TrimStartAngle(arc2, c), arc2.end_angle)

JunctionRepresentable(arc1, arc2, radius) ==
    \/ ~IsArc(arc1)
    \/ ~IsArc(arc2)
    \/ /\ AngIsRational(arc1.end_angle)
       /\ AngIsRational(arc2.start_angle)
       /\ IF PointSub(ArcStart(arc2), ArcEnd(arc1)) = Point(R(0), R(0))
          THEN SameJunctionPoint(arc1, arc2)
          ELSE /\ RIsSquare(Norm2(PointSub(ArcStart(arc2), ArcEnd(arc1))))
               /\ ~ContinuousFromArc1(arc1, arc2) =>
                     /\ SpaRepresentable(ArcStart(arc2), reverse(arc1), radius)
                     /\ Corner1Representable(arc1, Corner1(arc1, arc2, radius))
               /\ (FirstHalf(arc1, arc2, radius).exc = "none"
                   /\ ~ContinuousToArc2(arc1, arc2)) =>
                     /\ SpaRepresentable(ArcEnd(arc1), arc2, radius)
                     /\ Corner2Representable(arc2, Corner2(arc1, arc2, radius))

(***************************************************************************)
(* The state of the model: one call of the API at a time.                  *)
(***************************************************************************)
VARIABLES
    op,         \* the function that was called
    pc,         \* where the call is: "enter", a loop, "returned", "raised"
    exc,        \* the exception that ended the call, "none" otherwise
    result,     \* the value the call returned, None before it returns
    polygon,    \* smooth_polygon: the list polygon.points of the argument
    radius,     \* the fillet radius argument
    arcs,       \* smooth_polygon, Spiral: the local list arcs
    i,          \* smooth_polygon, Spiral: the index of the loop
    calls,      \* smooth_polygon: the calls of round_corner made so far
    point,      \* smooth_point_to_arc: the argument point
    arc,        \* smooth_point_to_arc: the argument arc; interpolate: self
    max_angle,  \* interpolate: the argument max_angle
    angle,      \* interpolate: the local angle
    points,     \* interpolate: the local list points
    angles,     \* interpolate: the value of angle each point was made from
    sp,         \* the arguments of a constructor (Spiral: and of estimate_dcr)
    loc,        \* the locals of the call; Footprint: the lists in memory;
                \* tstamp: the defaults of the classes and the uuid4 count
    self        \* the attributes the constructor has stored; Footprint: the
                \* footprints made so far; tstamp: the instances made so far

smoothVars == <<polygon, arcs, i, calls>>

spaVars == <<point, arc>>

interpVars == <<max_angle, angle, points, angles>>

spiralVars == <<sp, loc, self>>

Origin == Point(R(0), R(0))

\* the variables of the calls that are not being made
SmoothIdle == polygon = << >> /\ arcs = << >> /\ i = 0 /\ calls = << >>

SpaIdle == point = Origin /\ arc = None

InterpIdle == max_angle = Zero /\ angle = Zero /\ points = << >> /\ angles = << >>

SpiralIdle == sp = None /\ loc = None /\ self = None

(***************************************************************************)
(* smoothing.py: smooth_polygon                                            *)
(***************************************************************************)

\* the arcs polygons are drawn from: two half circles around the origin
\* that fillets of radius 12 meet in rational points, the two half circles
\* of a stadium, and two clockwise arcs on circles that touch from inside
\* at (25, 0)
ArcCatalog ==
    { Arc(Origin, R(1), Quarter(-1), Quarter(1)),
      Arc(Origin, R(25), Quarter(1), Quarter(-1)),
      Arc(Origin, R(3), Quarter(1), Quarter(3)),
      Arc(Point(R(8), R(0)), R(3), Quarter(-1), Quarter(1)),
      Arc(Origin, R(25), Quarter(1), Zero),
      Arc(Point(R(8), R(0)), R(17), Zero, Quarter(-2)) }

\* the longest polygon
MaxLen == 3

RECURSIVE SeqsOfLen(_, _)
SeqsOfLen(S, n) ==
    IF n = 0 THEN { << >> }
    ELSE { Append(q, x) : q \in SeqsOfLen(S, n - 1), x \in S }

Polygons == UNION { SeqsOfLen(ArcCatalog, n) : n \in 0..MaxLen }

\* fillet radii
Radii == { R(-1), R(0), R(1), R(12) }

Last(q) == q[Len(q)]

\* a list that pop() left as it was
Unpopped(q) == q

\* the list after pop()
Front(q) == SubSeq(q, 1, Len(q) - 1)

RECURSIVE LoopRepresentable(_, _, _, _)
\* every junction smooth_polygon(points, r) passes to round_corner is
\* representable: the loop from index k with the list arcs, then the wrap
LoopRepresentable(pts, r, as, k) ==
    IF k <= Len(pts)
    THEN /\ JunctionRepresentable(Last(as), pts[k], r)
         /\ LET rc == round_corner(Last(as), pts[k], r)
            IN  rc.exc = "none" =>
                    LoopRepresentable(pts, r, Front(as) \o rc.arcs, k + 1)
    ELSE Len(as) >= 2 => JunctionRepresentable(Last(as), as[1], r)

PolygonRepresentable(pts, r) ==
    IF ~RLt(R(0), r) \/ Len(pts) = 0 THEN TRUE
    ELSE LoopRepresentable(pts, r, <<pts[1]>>, 2)

\* straight vertices
Vertices == { Point(R(0), R(30)), Point(R(30), R(0)) }

\* polygons with a straight vertex among their elements
MixedPolygons ==
    { q \in UNION { SeqsOfLen(Vertices \cup { Arc(Origin, R(25), Quarter(1), Quarter(-1)), Arc(Origin, R(3), Quarter(1), Quarter(3)) }, n) : n \in 2..MaxLen } :
        \E k \in 1..Len(q) : IsPoint(q[k]) }

\* the arguments of smooth_polygon
SmoothInputs ==
    { input \in (Polygons \cup MixedPolygons) \X Radii :
        PolygonRepresentable(input[1], input[2]) }

\* the list polygon.points after round_corner(arc1, arc2, radius) returned
\* out for its element k: round_corner builds new Arcs and leaves its
\* arguments alone
PointsAfterCorner(pts, k, out) == pts

\* the list polygon.points if arcs were the same list object
PointsOfSharedList(pts) == SubSeq(pts, 1, Len(pts) - 1)

\* the list polygon.points after the local list arcs lost an element:
\* arcs is a list of its own, not polygon.points
PointsAfterPop(pts) == pts

SmoothInit ==
    /\ op = "smooth_polygon"
    /\ pc = "enter"
    /\ exc = "none"
    /\ result = None
    /\ \E input \in SmoothInputs : polygon = input[1] /\ radius = input[2]
    /\ arcs = << >>
    /\ i = 0
    /\ calls = << >>
    /\ SpaIdle
    /\ InterpIdle
    /\ SpiralIdle

\* the test of a claimed radius guard that lets radius = 0 through
RadiusNotNegative(r) == RLe(R(0), r)

\* line 219: assert radius > 0
RadiusAccepted(r) == RLt(R(0), r)

\* lines 219-222: assert radius > 0, arcs = [polygon.points[0]]
SmoothEnter ==
    /\ op = "smooth_polygon"
    /\ pc = "enter"
    /\ IF ~RadiusAccepted(radius)
       THEN /\ pc' = "raised"
            /\ exc' = "AssertionError"
            /\ UNCHANGED <<arcs, i>>
       ELSE IF Len(polygon) = 0
       THEN /\ pc' = "raised"
            /\ exc' = "IndexError"
            /\ UNCHANGED <<arcs, i>>
       ELSE /\ pc' = "loop"
            /\ exc' = "none"
            /\ arcs' = <<polygon[1]>>
            /\ i' = 2
    /\ UNCHANGED <<op, result, polygon, radius, calls, spaVars, interpVars, spiralVars>>

Call(arc1, arc2, rc) == [arc1 |-> arc1, arc2 |-> arc2, exc |-> rc.exc, arcs |-> rc.arcs]

\* lines 223-224: arcs.extend(round_corner(arcs.pop(), arc, radius))
SmoothLoop ==
    /\ op = "smooth_polygon"
    /\ pc = "loop"
    /\ i <= Len(polygon)
    /\ LET arc1 == Last(arcs)
           arc2 == polygon[i]
           rc   == round_corner(arc1, arc2, radius)
       IN  /\ calls' = Append(calls, Call(arc1, arc2, rc))
           /\ polygon' = PointsAfterCorner(PointsAfterPop(polygon), i, rc.arcs)
           /\ IF rc.exc # "none"
              THEN /\ pc' = "raised"
                   /\ exc' = rc.exc
                   /\ arcs' = Front(arcs)
                   /\ UNCHANGED i
              ELSE /\ pc' = "loop"
                   /\ exc' = "none"
                   /\ arcs' = Front(arcs) \o rc.arcs
                   /\ i' = i + 1
    /\ UNCHANGED <<op, result, radius, spaVars, interpVars, spiralVars>>

\* a list that is left with something to pop after one element is popped
\* only if it was not empty to begin with
CanPopOnce(as) == Len(as) >= 1

\* line 227: arcs.pop() and then arcs.pop(0) need two elements
CanPopTwice(as) == Len(as) >= 2

\* the Polygon smooth_polygon returns
Polygon(pts) == [kind |-> "Polygon", pts |-> pts]

\* lines 227-229: arcs.extend(round_corner(arcs.pop(), arcs.pop(0), radius))
\* and return Polygon(arcs)
SmoothWrap ==
    /\ op = "smooth_polygon"
    /\ pc = "loop"
    /\ i > Len(polygon)
    /\ IF ~CanPopTwice(arcs)
       THEN /\ pc' = "raised"
            /\ exc' = "IndexError"
            /\ arcs' = Front(arcs)
            /\ polygon' = PointsAfterPop(polygon)
            /\ UNCHANGED <<result, calls>>
       ELSE LET arc1 == Last(arcs)
                arc2 == arcs[1]
                rest == SubSeq(arcs, 2, Len(arcs) - 1)
                rc   == round_corner(arc1, arc2, radius)
            IN  /\ calls' = Append(calls, Call(arc1, arc2, rc))
                /\ polygon' = PointsAfterCorner(PointsAfterPop(PointsAfterPop(polygon)),
                                                1, rc.arcs)
                /\ IF rc.exc # "none"
                   THEN /\ pc' = "raised"
                        /\ exc' = rc.exc
                        /\ arcs' = rest
                        /\ UNCHANGED result
                   ELSE /\ pc' = "returned"
                        /\ exc' = "none"
                        /\ arcs' = rest \o rc.arcs
                        /\ result' = Polygon(rest \o rc.arcs)
    /\ UNCHANGED <<op, radius, i, spaVars, interpVars, spiralVars>>

(***************************************************************************)
(* smoothing.py: smooth_point_to_arc, called on its own                    *)
(***************************************************************************)
\* the largest coordinate of a point
MaxCoord == 30

\* the points: five columns of the integer grid
PointGrid == { Point(R(7 * x), R(y)) : x \in -2..2, y \in -MaxCoord..MaxCoord }

\* the arcs a point is joined to: those of the polygons, and two clockwise
\* quarters that begin at the bottom and at the right of their circle
SpaArcs ==
    ArcCatalog \cup { Arc(Origin, R(25), Quarter(-1), Quarter(-2)),
                      Arc(Origin, R(25), Zero, Quarter(-1)) }

\* the arguments of smooth_point_to_arc
SpaInputs ==
    { input \in PointGrid \X SpaArcs \X { q \in Radii : RLt(R(0), q) } :
        SpaRepresentable(input[1], input[2], input[3]) }

SpaInit ==
    /\ op = "smooth_point_to_arc"
    /\ pc = "enter"
    /\ exc = "none"
    /\ result = None
    /\ \E input \in SpaInputs :
          point = input[1] /\ arc = input[2] /\ radius = input[3]
    /\ SmoothIdle
    /\ InterpIdle
    /\ SpiralIdle

\* lines 32-150, the whole call
SpaCall ==
    /\ op = "smooth_point_to_arc"
    /\ pc = "enter"
    /\ LET corner == smooth_point_to_arc(point, arc, radius)
       IN  IF IsRaise(corner)
           THEN pc' = "raised" /\ exc' = corner.exc /\ UNCHANGED result
           ELSE pc' = "returned" /\ exc' = "none" /\ result' = corner
    /\ UNCHANGED <<op, radius, smoothVars, spaVars, interpVars, spiralVars>>

(***************************************************************************)
(* geometry.py: Arc.interpolate                                            *)
(***************************************************************************)
\* start and end angles run over -MaxQuarter..MaxQuarter quarter turns
MaxQuarter == 2

\* the loop of interpolate is followed up to this many points: with
\* max_angle <= 0 it adds points for ever
MaxPoints == 8

InterpArcs ==
    { Arc(Origin, R(10), Quarter(a), Quarter(b)) : a, b \in -MaxQuarter..MaxQuarter }

\* the steps: -pi/2, 0, atan2(3, 4), atan2(4, 3), pi/2, pi
MaxAngles == { Quarter(-1), Zero, Ang(0, 4, 3), Ang(0, 3, 4), Quarter(1), Quarter(PI) }

AngLe(a, b) == ~AngLt(b, a)

AngAbs(a) == IF AngLt(a, Zero) THEN AngNeg(a) ELSE a

\* |end_angle - start_angle|
Span(a) == AngAbs(AngSub(a.end_angle, a.start_angle))

IsQuarter(a) == a.s = 0

\* sums of quarter turns are exact in double precision, and the other steps
\* never land on end_angle; their cos and sin stay within the integers of
\* the model for half a turn
InterpRepresentable(a, step) == IsQuarter(step) \/ AngLe(Span(a), Quarter(PI))

InterpInputs == { input \in InterpArcs \X MaxAngles : InterpRepresentable(input[1], input[2]) }

InterpInit ==
    /\ op = "interpolate"
    /\ pc = "enter"
    /\ exc = "none"
    /\ result = None
    /\ radius = R(0)
    /\ \E input \in InterpInputs : arc = input[1] /\ max_angle = input[2]
    /\ point = Origin
    /\ angle = Zero
    /\ points = << >>
    /\ angles = << >>
    /\ SmoothIdle
    /\ SpiralIdle

\* lines 146-147: points = [], angle = self.start_angle
InterpEnter ==
    /\ op = "interpolate"
    /\ pc = "enter"
    /\ pc' = "loop"
    /\ points' = << >>
    /\ angles' = << >>
    /\ angle' = arc.start_angle
    /\ UNCHANGED <<op, exc, result, radius, max_angle, smoothVars, spaVars, spiralVars>>

\* a loop test that also runs the loop at the end angle
InterpContinuesAtEnd(a, current) ==
    IF rotates_counterclockwise(a) THEN ~AngGt(current, a.end_angle)
                                   ELSE ~AngLt(current, a.end_angle)

\* lines 148-149 and 155-156: the test of the while loop that is run
InterpContinues(a, current) ==
    IF rotates_counterclockwise(a) THEN AngLt(current, a.end_angle)
                                   ELSE AngGt(current, a.end_angle)

\* lines 150-153, 157-160, 163-167: the point at an angle
InterpPoint(a, current) ==
    PointAdd(a.center, Point(RMul(a.radius, Cos(current)), RMul(a.radius, Sin(current))))

\* lines 154 and 161: angle += max_angle, angle -= max_angle
InterpAdvance(a, current, step) ==
    IF rotates_counterclockwise(a) THEN AngAdd(current, step)
                                   ELSE AngSub(current, step)

\* lines 148-161: one turn of the loop
InterpStep ==
    /\ op = "interpolate"
    /\ pc = "loop"
    /\ InterpContinues(arc, angle)
    /\ Len(points) < MaxPoints
    /\ points' = Append(points, InterpPoint(arc, angle))
    /\ angles' = Append(angles, angle)
    /\ angle' = InterpAdvance(arc, angle, max_angle)
    /\ UNCHANGED <<op, pc, exc, result, radius, max_angle, smoothVars, spaVars, spiralVars>>

\* lines 162-168: the end point is added and the list returned
InterpReturn ==
    /\ op = "interpolate"
    /\ pc = "loop"
    /\ ~InterpContinues(arc, angle)
    /\ pc' = "returned"
    /\ points' = Append(points, InterpPoint(arc, arc.end_angle))
    /\ angles' = Append(angles, arc.end_angle)
    /\ result' = Append(points, InterpPoint(arc, arc.end_angle))
    /\ UNCHANGED <<op, exc, radius, max_angle, angle, smoothVars, spaVars, spiralVars>>

(***************************************************************************)
(* windings/spirals.py: calc_trace_widths and Spiral                       *)
(***************************************************************************)
\* the largest r with r^n representable
RootCap(n) ==
    CASE n = 1 -> 2147483647
      [] n = 2 -> 46340
      [] n = 3 -> 1290
      [] n = 4 -> 215
      [] n = 5 -> 73
      [] OTHER -> 35

RECURSIVE IRootIn(_, _, _, _)
IRootIn(m, n, lo, hi) ==
    IF lo >= hi THEN lo
    ELSE LET mid == (lo + hi + 1) \div 2
         IN  IF Pow(mid, n) <= m THEN IRootIn(m, n, mid, hi)
                                 ELSE IRootIn(m, n, lo, mid - 1)

\* the integer part of the n-th root of m >= 0
IRoot(m, n) == IF n = 1 THEN m ELSE IRootIn(m, n, 0, Min(m, RootCap(n)))

IsNthPower(m, n) == m >= 0 /\ Pow(IRoot(m, n), n) = m

RPow(a, e) == Rat(Pow(a.n, e), Pow(a.d, e))

\* a ** (1 / n) for a rational a that is an n-th power
RRoot(a, n) == Rat(IRoot(a.n, n), IRoot(a.d, n))

\* the radii with the two exponents exchanged
calc_trace_widths_exchanged(inner_radius, outer_radius, num_turns) ==
    [j \in 1..num_turns |->
        RRoot(RMul(RPow(inner_radius, j - 1), RPow(outer_radius, num_turns - (j - 1))),
              num_turns)]

\* lines 12-19; element j of the model is radii[j - 1] of the code
calc_trace_widths(inner_radius, outer_radius, num_turns) ==
    [j \in 1..num_turns |->
        RRoot(RMul(RPow(inner_radius, num_turns - (j - 1)), RPow(outer_radius, j - 1)),
              num_turns)]

\* lines 39-40: divmod(num_turns, 1)
IntegerTurns(num_turns) == num_turns.n \div num_turns.d

FractionalTurns(num_turns) == RSub(num_turns, R(IntegerTurns(num_turns)))

\* lines 43-44
WideRadii(a) == calc_trace_widths(a.inner_radius, a.outer_radius, IntegerTurns(a.num_turns))

NarrowRadii(a) ==
    calc_trace_widths(a.inner_radius, a.outer_radius, IntegerTurns(a.num_turns) + 1)

\* lines 47-49: narrow_radii[1] - narrow_radii[0] - gap if num_turns > 1
\* else outer_radius
MinTraceWidth(a) ==
    IF RLt(R(1), a.num_turns)
    THEN RSub(RSub(NarrowRadii(a)[2], NarrowRadii(a)[1]), a.gap)
    ELSE a.outer_radius

\* line 36
TurnsAccepted(a) == RLe(R(1), a.num_turns)

\* lines 50-52
WidthAccepted(a, r) == RLt(RMul(R(2), r), MinTraceWidth(a))

\* the most turns of a spiral
MaxTurns == 2

\* inner and outer radius
RadiusPairs == { <<1, 64>>, <<64, 729>>, <<9, 16>>, <<100, 121>>, <<16, 9>> }

Gaps == { R(0), R(1) }

SpiralRadii == { R(0), R(1), R(4), R(12) }

Thicknesses == { R(1), R(2) }

Rhos == { R(1), R(3) }

\* num_turns: the halves up to MaxTurns + 1/2
TurnCounts == { Rat(h, 2) : h \in 1..(2 * MaxTurns + 1) }

SpiralArgs ==
    [ inner_radius : { R(pair[1]) : pair \in RadiusPairs },
      outer_radius : { R(pair[2]) : pair \in RadiusPairs },
      num_turns : TurnCounts,
      gap : Gaps,
      thickness : Thicknesses,
      rho : Rhos ]

\* the roots of calc_trace_widths are rational, and the assertion of lines
\* 50-52 does not compare two equal reals that the code computes as roots
SpiralRepresentable(a, r) ==
    /\ <<a.inner_radius.n, a.outer_radius.n>> \in RadiusPairs
    /\ TurnsAccepted(a) =>
          /\ \A n \in { IntegerTurns(a.num_turns), IntegerTurns(a.num_turns) + 1 } :
                IsNthPower(a.inner_radius.n, n) /\ IsNthPower(a.outer_radius.n, n)
          /\ RLt(R(1), a.num_turns) => MinTraceWidth(a) # RMul(R(2), r)

SpiralInputs ==
    { input \in SpiralArgs \X SpiralRadii : SpiralRepresentable(input[1], input[2]) }

SpiralInit ==
    /\ op = "Spiral"
    /\ pc = "enter"
    /\ exc = "none"
    /\ result = None
    /\ \E input \in SpiralInputs : sp = input[1] /\ radius = input[2]
    /\ loc = None
    /\ self = None
    /\ SmoothIdle
    /\ SpaIdle
    /\ InterpIdle

Locals(a) ==
    [ kind |-> "Locals",
      integer_turns |-> IntegerTurns(a.num_turns),
      fractional_turns |-> FractionalTurns(a.num_turns),
      wide_radii |-> WideRadii(a),
      narrow_radii |-> NarrowRadii(a),
      min_trace_width |-> MinTraceWidth(a) ]

\* lines 36-52: the assertions, and the radii computed between them
SpiralCheck ==
    /\ op = "Spiral"
    /\ pc = "enter"
    /\ IF ~TurnsAccepted(sp)
       THEN pc' = "raised" /\ exc' = "AssertionError" /\ UNCHANGED loc
       ELSE IF ~WidthAccepted(sp, radius)
       THEN pc' = "raised" /\ exc' = "AssertionError" /\ loc' = Locals(sp)
       ELSE pc' = "inner" /\ exc' = "none" /\ loc' = Locals(sp)
    /\ UNCHANGED <<op, result, radius, sp, self, smoothVars, spaVars, interpVars>>

\* an Arc of the spiral around its center; its angles are not modelled
SpiralArc(r) == [kind |-> "Arc", radius |-> r]

\* lines 64 and 98: math.acos(r0 / r1) is defined
AcosDefined(r0, r1) == RLe(RAbs(r0), RAbs(r1)) /\ ~RIsZero(r1)

\* lines 61-111, one turn of the loop.  With fractional_turns 0 or 1/2 the
\* tests of lines 65 and 100 are false (acos is in [0, pi], a0 is -pi or
\* rotation_angle = 0), so the wide section adds one Arc of radius
\* wide_radii[i] and the narrow section, run when fractional_turns # 0, one
\* Arc of radius narrow_radii[i + 1]
SpiralInner ==
    /\ op = "Spiral"
    /\ pc = "inner"
    /\ i < loc.integer_turns
    /\ LET integer == RIsZero(loc.fractional_turns)
           r0      == IF i = 0 THEN RSub(sp.inner_radius, sp.gap)
                      ELSE IF integer THEN loc.wide_radii[i]
                      ELSE loc.narrow_radii[i + 1]
           wide    == loc.wide_radii[i + 1]
       IN  IF ~AcosDefined(r0, wide)
           THEN pc' = "raised" /\ exc' = "ValueError" /\ UNCHANGED <<arcs, i>>
           ELSE IF integer
           THEN /\ pc' = "inner"
                /\ exc' = "none"
                /\ i' = i + 1
                /\ arcs' = Append(arcs, SpiralArc(wide))
           ELSE IF ~AcosDefined(wide, loc.narrow_radii[i + 2])
           THEN /\ pc' = "raised"
                /\ exc' = "ValueError"
                /\ arcs' = Append(arcs, SpiralArc(wide))
                /\ UNCHANGED i
           ELSE /\ pc' = "inner"
                /\ exc' = "none"
                /\ i' = i + 1
                /\ arcs' = arcs \o <<SpiralArc(wide), SpiralArc(loc.narrow_radii[i + 2])>>
    /\ UNCHANGED <<op, result, radius, polygon, calls, spiralVars, spaVars, interpVars>>

RECURSIVE Reversed(_)
Reversed(q) == IF q = << >> THEN << >> ELSE Append(Reversed(Tail(q)), Head(q))

\* lines 121-135: an Arc of radius inner_arc.radius - gap for every element
\* of arcs[-2:0:-1]
OuterArcs(as, gap) ==
    LET inner == Reversed(SubSeq(as, 2, Len(as) - 1))
    IN  [j \in 1..Len(inner) |-> SpiralArc(RSub(inner[j].radius, gap))]

\* lines 113-147: the outermost arc and the outer arcs
SpiralOuter ==
    /\ op = "Spiral"
    /\ pc = "inner"
    /\ i >= loc.integer_turns
    /\ LET r0 == IF RIsZero(loc.fractional_turns)
                 THEN loc.wide_radii[loc.integer_turns]
                 ELSE loc.narrow_radii[loc.integer_turns + 1]
           as == Append(arcs, SpiralArc(sp.outer_radius))
       IN  IF AcosDefined(r0, sp.outer_radius)
              /\ AcosDefined(RSub(r0, sp.gap), sp.outer_radius)
           THEN pc' = "polygon" /\ exc' = "none" /\ arcs' = as \o OuterArcs(as, sp.gap)
           ELSE pc' = "raised" /\ exc' = "ValueError" /\ UNCHANGED arcs
    /\ UNCHANGED <<op, result, radius, polygon, i, calls, spiralVars, spaVars, interpVars>>

\* lines 165-169
Dimensions(a, l) ==
    [ kind |-> "Spiral",
      wide_inner_radii |-> l.wide_radii,
      wide_outer_radii |->
          [j \in 1..Len(l.wide_radii) |->
              IF j < Len(l.wide_radii) THEN RSub(l.wide_radii[j + 1], a.gap)
                                       ELSE a.outer_radius],
      narrow_inner_radii |-> l.narrow_radii,
      narrow_outer_radii |->
          [j \in 1..Len(l.narrow_radii) |->
              IF j < Len(l.narrow_radii) THEN RSub(l.narrow_radii[j + 1], a.gap)
                                         ELSE a.outer_radius],
      fractional_turns |-> l.fractional_turns ]

\* lines 150-169: the polygon is kept as it is (radius <= 0) or smoothed and
\* the call of smooth_polygon returns; the dimensions are stored
SpiralStore ==
    /\ op = "Spiral"
    /\ pc = "polygon"
    /\ pc' = "constructed"
    /\ self' = Dimensions(sp, loc)
    /\ UNCHANGED <<op, exc, result, radius, sp, loc, smoothVars, spaVars, interpVars>>

\* line 151: the angles of the spiral's arcs are not rational, so whether
\* smooth_polygon raises on them is left open
SpiralSmoothRaises ==
    /\ op = "Spiral"
    /\ pc = "polygon"
    /\ RLt(R(0), radius)
    /\ pc' = "raised"
    /\ \E e \in { "ValueError", "ZeroDivisionError", "AttributeError" } : exc' = e
    /\ UNCHANGED <<op, result, radius, spiralVars, smoothVars, spaVars, interpVars>>

(***************************************************************************)
(* windings/spirals.py: Spiral.estimate_dcr.  A resistance is a polynomial  *)
(* k1 * K + k2 * K^2 in K = 2 pi / ln 2 with rational k1 and k2.  K is      *)
(* transcendental, so two resistances are equal exactly when their          *)
(* coefficients are.                                                       *)
(***************************************************************************)
Res(k1, k2) == [k1 |-> k1, k2 |-> k2]

ResZero == Res(R(0), R(0))

ResAdd(a, b) == Res(RAdd(a.k1, b.k1), RAdd(a.k2, b.k2))

\* a float times a resistance
ResScale(q, a) == Res(RMul(q, a.k1), RMul(q, a.k2))

\* the product of two resistances that are multiples of K
ResMul(a, b) == Res(R(0), RMul(a.k1, b.k1))

RECURSIVE Log2(_)
\* the integer part of the logarithm of m >= 1 to the base 2
Log2(m) == IF m <= 1 THEN 0 ELSE 1 + Log2(m \div 2)

\* q = 2^k for an integer k >= 1
IsPowerOfTwo(q) == q.d = 1 /\ q.n >= 2 /\ Pow(2, Log2(q.n)) = q.n

\* rho / (thickness * ln(r1 / r0)) * 2 pi, for r1 / r0 a power of two:
\* ln(2^k) = k ln 2
dcr_of_annulus(thickness, r0, r1, rho) ==
    Res(RDiv(rho, RMul(thickness, R(Log2(RDiv(r1, r0).n)))), R(0))

RECURSIVE SumOfAnnuli(_, _, _, _, _)
\* lines 187-188 and 192-193: the sum over zip(inner, outer) from pair j on
SumOfAnnuli(inner, outer, thickness, rho, j) ==
    IF j > Min(Len(inner), Len(outer)) THEN ResZero
    ELSE ResAdd(dcr_of_annulus(thickness, inner[j], outer[j], rho),
                SumOfAnnuli(inner, outer, thickness, rho, j + 1))

\* lines 186-188
WideDcr(s, thickness, rho) ==
    SumOfAnnuli(s.wide_inner_radii, s.wide_outer_radii, thickness, rho, 1)

\* lines 191-193
NarrowDcr(s, thickness, rho) ==
    SumOfAnnuli(s.narrow_inner_radii, s.narrow_outer_radii, thickness, rho, 1)

\* line 196:
\* self.fractional_turns * narrow * (1 - self.fractional_turns) * wide
estimate_dcr(s, thickness, rho) ==
    ResMul(ResScale(RSub(R(1), s.fractional_turns),
                    ResScale(s.fractional_turns, NarrowDcr(s, thickness, rho))),
           WideDcr(s, thickness, rho))

\* every annulus of the spiral has radii in a ratio 2^k
DcrRepresentable(s) ==
    /\ \A j \in 1..Len(s.wide_inner_radii) :
          IsPowerOfTwo(RDiv(s.wide_outer_radii[j], s.wide_inner_radii[j]))
    /\ \A j \in 1..Len(s.narrow_inner_radii) :
          IsPowerOfTwo(RDiv(s.narrow_outer_radii[j], s.narrow_inner_radii[j]))

\* lines 171-198: spiral.estimate_dcr(thickness, rho) on a constructed spiral
EstimateDcr ==
    /\ op = "Spiral"
    /\ pc = "constructed"
    /\ DcrRepresentable(self)
    /\ pc' = "estimated"
    /\ result' = estimate_dcr(self, sp.thickness, sp.rho)
    /\ UNCHANGED <<op, exc, radius, spiralVars, smoothVars, spaVars, interpVars>>

(***************************************************************************)
(* geometry.py: the derived fields of Arc.__post_init__ and the            *)
(* interpolation of an arc as one value.                                   *)
(***************************************************************************)
\* the variables the calls of geometry.py, single.py and kicad.py leave alone
callVars == <<polygon, radius, arcs, i, calls, point, arc, max_angle, angle, points, angles>>

CallIdle == SmoothIdle /\ SpaIdle /\ InterpIdle /\ radius = R(0)

\* a / 2 is again a whole number of quarter turns for these angles
HalfIsQuarter(a) == a.s = 0 /\ a.n % 2 = 0

\* a / 2, for a with HalfIsQuarter(a)
AngHalf(a) == Quarter(a.n \div 2)

\* line 89: mid_angle = (self.start_angle + self.end_angle) / 2
MidAngle(a) == AngHalf(AngAdd(a.start_angle, a.end_angle))

\* line 91
ArcMid(a) == PointAdd(a.center, point_from_polar(a.radius, MidAngle(a)))

\* line 95: width = abs(self.end - self.start)
ArcWidth(a) == PointAbs(PointSub(ArcEnd(a), ArcStart(a)))

\* line 96: the test that decides which attribute is assigned
StartIsEnd(a) == PointEq(ArcStart(a), ArcEnd(a))

\* lines 99-100: sagitta = get_oriented_distance(mid, start, end) and
\* bulge = 2 * sagitta / width
ArcBulge(a) ==
    RDiv(RMul(R(2), get_oriented_distance(ArcMid(a), ArcStart(a), ArcEnd(a))),
         ArcWidth(a))

\* lines 90-100: the attributes __post_init__ assigns.  Line 97 assigns
\* self.buldge, so an arc whose start is its end has no attribute bulge.
PostInit(a) ==
    IF StartIsEnd(a)
    THEN [start |-> ArcStart(a), mid |-> ArcMid(a), end |-> ArcEnd(a), buldge |-> R(2)]
    ELSE [start |-> ArcStart(a), mid |-> ArcMid(a), end |-> ArcEnd(a),
          bulge |-> ArcBulge(a)]

\* reading arc.bulge raises AttributeError on an arc without the attribute
HasBulge(a) == "bulge" \in DOMAIN PostInit(a)

\* a coordinate c + r * t, t the cos or sin of angle a, is computed by the
\* floats as the model computes it when nothing is left of a rounding
\* residue: the angle is 0, the product is exact, or the sum is not 0
FaithfulCoord(c, r, a, t) ==
    \/ a = Zero
    \/ RIsZero(r)
    \/ RAbs(t) = R(1)
    \/ ~RIsZero(RAdd(c, RMul(r, t)))

FaithfulAt(a, ang) ==
    /\ FaithfulCoord(a.center.x, a.radius, ang, Cos(ang))
    /\ FaithfulCoord(a.center.y, a.radius, ang, Sin(ang))

\* the arcs whose derived fields the model computes as the floats do: a
\* full turn is left out, its start and end differ by a rounding residue
ArcRepresentable(a) ==
    /\ HalfIsQuarter(AngAdd(a.start_angle, a.end_angle))
    /\ FaithfulAt(a, a.start_angle)
    /\ FaithfulAt(a, a.end_angle)
    /\ RIsSquare(Norm2(PointSub(ArcEnd(a), ArcStart(a))))
    /\ (a.start_angle # a.end_angle /\ ~RIsZero(a.radius)) =>
           ~SameDirection(a.start_angle, a.end_angle)

\* lines 146-168: the list interpolate returns, from the angle current on
RECURSIVE InterpolateFrom(_, _, _)
InterpolateFrom(a, current, step) ==
    IF InterpContinues(a, current)
    THEN <<InterpPoint(a, current)>>
             \o InterpolateFrom(a, InterpAdvance(a, current, step), step)
    ELSE <<InterpPoint(a, a.end_angle)>>

interpolate(a, step) == InterpolateFrom(a, a.start_angle, step)

(***************************************************************************)
(* geometry.py: Polygon.to_pwl_path and Polygon.to_poly_path               *)
(***************************************************************************)
\* the elements polygons are flattened from: two half circles of radius 5
\* that meet in (10, 5), an arc of no length in that point, and the points
\* the first half circle starts and ends in, and one away from both
PathElements ==
    { Arc(Point(R(5), R(5)), R(5), Quarter(2), Zero),
      Arc(Point(R(15), R(5)), R(5), Quarter(2), Quarter(4)),
      Arc(Point(R(5), R(5)), R(5), Zero, Zero),
      Point(R(0), R(5)),
      Point(R(10), R(5)),
      Point(R(20), R(20)) }

\* the longest polygon that is flattened
MaxPath == 3

PathPolygons ==
    { q \in UNION { SeqsOfLen(PathElements, n) : n \in 0..MaxPath } :
        \A k \in 1..Len(q) : IsArc(q[k]) => ArcRepresentable(q[k]) }

\* the steps of to_pwl_path: pi/2 and pi
PathAngles == { Quarter(1), Quarter(PI) }

\* (p.x, p.y)
Xy(p) == <<p.x, p.y>>

RECURSIVE XyOf(_)
XyOf(ps) == IF ps = << >> THEN << >> ELSE <<Xy(ps[1])>> \o XyOf(Tail(ps))

PwlInit ==
    /\ op = "to_pwl_path"
    /\ pc = "loop"
    /\ exc = "none"
    /\ result = None
    /\ \E q \in PathPolygons, step \in PathAngles :
           sp = [points |-> q, max_angle |-> step]
    /\ loc = [i |-> 1, points |-> << >>]
    /\ self = None
    /\ CallIdle

\* lines 242-245: what one element adds to the list
PwlOf(e, step) == IF IsArc(e) THEN XyOf(interpolate(e, step)) ELSE <<Xy(e)>>

\* lines 240-245: one turn of the loop
PwlLoop ==
    /\ op = "to_pwl_path"
    /\ pc = "loop"
    /\ loc.i <= Len(sp.points)
    /\ loc' = [i |-> loc.i + 1,
               points |-> loc.points \o PwlOf(sp.points[loc.i], sp.max_angle)]
    /\ UNCHANGED <<op, pc, exc, result, sp, self, callVars>>

\* line 246
PwlReturn ==
    /\ op = "to_pwl_path"
    /\ pc = "loop"
    /\ loc.i > Len(sp.points)
    /\ pc' = "returned"
    /\ result' = loc.points
    /\ UNCHANGED <<op, exc, sp, loc, self, callVars>>

PolyInit ==
    /\ op = "to_poly_path"
    /\ pc = "loop"
    /\ exc = "none"
    /\ result = None
    /\ \E q \in PathPolygons : sp = [points |-> q]
    /\ loc = [i |-> 1, points |-> << >>, last |-> None]
    /\ self = None
    /\ CallIdle

\* a connector that is never added
NoConnector(last, start) == << >>

\* lines 218-219 and 225-226: the end of the arc before is added when the
\* element does not start there
Connector(last, start) ==
    IF last # None /\ PointNe(start, last) THEN <<Xy(last)>> ELSE << >>

\* line 221: (point.start.x, point.start.y, 0, 0, point.bulge)
ArcEntry(a) == <<ArcStart(a).x, ArcStart(a).y, R(0), R(0), PostInit(a).bulge>>

\* lines 214-228: one turn of the loop; reading the bulge of an arc that has
\* none raises AttributeError
PolyLoop ==
    /\ op = "to_poly_path"
    /\ pc = "loop"
    /\ loc.i <= Len(sp.points)
    /\ LET e == sp.points[loc.i]
       IN  IF IsArc(e)
           THEN IF HasBulge(e)
                THEN /\ loc' = [i |-> loc.i + 1,
                                points |-> loc.points \o Connector(loc.last, ArcStart(e))
                                               \o <<ArcEntry(e)>>,
                                last |-> ArcEnd(e)]
                     /\ UNCHANGED <<pc, exc>>
                ELSE /\ pc' = "raised"
                     /\ exc' = "AttributeError"
                     /\ loc' = [loc EXCEPT !.points = loc.points \o Connector(loc.last, ArcStart(e))]
           ELSE /\ loc' = [i |-> loc.i + 1,
                           points |-> loc.points \o Connector(loc.last, e) \o <<Xy(e)>>,
                           last |-> None]
                /\ UNCHANGED <<pc, exc>>
    /\ UNCHANGED <<op, result, sp, self, callVars>>

\* lines 231-234: the end of the last arc is added and the list returned
PolyReturn ==
    /\ op = "to_poly_path"
    /\ pc = "loop"
    /\ loc.i > Len(sp.points)
    /\ pc' = "returned"
    /\ result' = loc.points \o (IF loc.last # None THEN <<Xy(loc.last)>> ELSE << >>)
    /\ UNCHANGED <<op, exc, sp, loc, self, callVars>>

(***************************************************************************)
(* geometry.py: Polygon.__add__ and Polygon.__mul__                        *)
(***************************************************************************)
\* a Polygon with its layer, width and fill
NewPolygon(pts, layer, width, fill) ==
    [kind |-> "Polygon", pts |-> pts, layer |-> layer, width |-> width, fill |-> fill]

\* the offsets polygons are moved by and the numbers they are multiplied by
Offsets == { Point(R(1), R(2)), Point(R(-5), R(-5)) }

Scalers == { R(-1), R(0), R(2) }

Layers == { "F.Cu", "B.Cu" }

TransformInit ==
    /\ op \in { "Polygon.__add__", "Polygon.__mul__" }
    /\ pc = "enter"
    /\ exc = "none"
    /\ result = None
    /\ \E q \in PathPolygons, l \in Layers, o \in Offsets, s \in Scalers :
           sp = [points |-> q, layer |-> l, width |-> R(0), fill |-> "solid",
                 other |-> IF op = "Polygon.__add__" THEN o ELSE s]
    /\ loc = None
    /\ self = None
    /\ CallIdle

\* lines 45-46 and 105-106: point + other, for a Point and for an Arc
ElementAdd(e, other) ==
    IF IsArc(e) THEN Arc(PointAdd(e.center, other), e.radius, e.start_angle, e.end_angle)
                ELSE PointAdd(e, other)

RECURSIVE AddToEach(_, _)
AddToEach(q, other) ==
    IF q = << >> THEN << >> ELSE <<ElementAdd(q[1], other)>> \o AddToEach(Tail(q), other)

\* lines 189-192
PolygonAdd ==
    /\ op = "Polygon.__add__"
    /\ pc = "enter"
    /\ pc' = "returned"
    /\ result' = NewPolygon(AddToEach(sp.points, sp.other), sp.layer, sp.width, sp.fill)
    /\ UNCHANGED <<op, exc, sp, loc, self, callVars>>

\* line 196: scaler * point with a number on the left.  A number does not
\* multiply a Point or an Arc, and neither class defines __rmul__ (Point and
\* Arc define __mul__ only, lines 64 and 108): the product raises TypeError.
NumberTimes(scaler, e) == Raise("TypeError")

\* lines 194-197: the list comprehension stops at the first product
PolygonMul ==
    /\ op = "Polygon.__mul__"
    /\ pc = "enter"
    /\ IF sp.points = << >>
       THEN /\ pc' = "returned"
            /\ result' = NewPolygon(<< >>, sp.layer, sp.width, sp.fill)
            /\ UNCHANGED exc
       ELSE /\ pc' = "raised"
            /\ exc' = NumberTimes(sp.other, sp.points[1]).exc
            /\ UNCHANGED result
    /\ UNCHANGED <<op, sp, loc, self, callVars>>

(***************************************************************************)
(* geometry.py: the construction of an Arc, and what is asked of it        *)
(***************************************************************************)
\* the radii arcs are constructed with
ArcRadii == { R(-1), R(0), R(5) }

\* start and end angles: quarter turns, atan2(3, 4) and pi - atan2(3, 4)
ArcAngles == { Quarter(k) : k \in -MaxQuarter..MaxQuarter } \cup { Ang(0, 4, 3), Ang(1, 3, 4) }

ArcInputs ==
    { a \in { Arc(c, r, s, e) : c \in { Origin, Point(R(5), R(5)) }, r \in ArcRadii,
                                s \in ArcAngles, e \in ArcAngles } :
        ArcRepresentable(a) }

ArcInit ==
    /\ op = "Arc"
    /\ pc = "enter"
    /\ exc = "none"
    /\ result = None
    /\ sp \in ArcInputs
    /\ loc = None
    /\ self = None
    /\ CallIdle

\* lines 85-100: no argument is refused; the derived attributes are stored
ArcPostInit ==
    /\ op = "Arc"
    /\ pc = "enter"
    /\ pc' = "constructed"
    /\ self' = PostInit(sp)
    /\ UNCHANGED <<op, exc, result, sp, loc, callVars>>

\* lines 113-117: rotates_clockwise() and rotates_counterclockwise()
ArcRotates ==
    /\ op = "Arc"
    /\ pc = "constructed"
    /\ pc' = "asked"
    /\ result' = [clockwise |-> rotates_clockwise(sp),
                  counterclockwise |-> rotates_counterclockwise(sp)]
    /\ UNCHANGED <<op, exc, sp, loc, self, callVars>>

\* lines 143-168: interpolate(pi / 2)
ArcInterpolate ==
    /\ op = "Arc"
    /\ pc = "constructed"
    /\ pc' = "interpolated"
    /\ result' = interpolate(sp, Quarter(PI_OVER_TWO))
    /\ UNCHANGED <<op, exc, sp, loc, self, callVars>>

(***************************************************************************)
(* geometry.py: Point.__eq__ and Point.__ne__                              *)
(***************************************************************************)
\* a rounding residue: half of 1 / RelTolInv
Residue == Rat(1, 2 * RelTolInv)

\* the coordinates that are compared: 0, a residue and 1 with each other,
\* and three neighbours at the size of RelTolInv with each other
CoordPairs ==
    ({ R(0), Residue, R(1) } \X { R(0), Residue, R(1) })
        \cup ({ R(RelTolInv + k) : k \in 0..2 } \X { R(RelTolInv + k) : k \in 0..2 })

PointEqInit ==
    /\ op = "Point.__eq__"
    /\ pc = "enter"
    /\ exc = "none"
    /\ result = None
    /\ \E xs \in CoordPairs, ys \in CoordPairs :
           sp = [self |-> Point(xs[1], ys[1]), other |-> Point(xs[2], ys[2])]
    /\ loc = None
    /\ self = None
    /\ CallIdle

\* lines 54-62: self == other and self != other
PointCompare ==
    /\ op = "Point.__eq__"
    /\ pc = "enter"
    /\ pc' = "returned"
    /\ result' = [eq |-> PointEq(sp.self, sp.other), ne |-> PointNe(sp.self, sp.other)]
    /\ UNCHANGED <<op, exc, sp, loc, self, callVars>>

(***************************************************************************)
(* windings/single.py: TopTurn, BottomTurn and InnerTurn                   *)
(***************************************************************************)
TurnClasses == { "TopTurn", "BottomTurn", "InnerTurn" }

\* inner and outer radius: in order, exchanged, equal, and no inner radius
TurnRadii == { <<R(5), R(10)>>, <<R(10), R(5)>>, <<R(5), R(5)>>, <<R(0), R(5)>> }

\* the fifth argument is termination_width for TopTurn and BottomTurn and
\* the angle rotation for InnerTurn
TurnArgs ==
    { [cls |-> c, at |-> Origin, inner_radius |-> rr[1], outer_radius |-> rr[2],
       gap |-> g, termination_width |-> tw, rotation |-> rot,
       viastrip_angle |-> Quarter(PI_OVER_TWO), viastrip_width |-> vw, layer |-> "F.Cu"] :
        c \in TurnClasses, rr \in TurnRadii, g \in { R(0), R(3), R(7) },
        tw \in { R(0), R(12) }, rot \in { Zero, Quarter(1) }, vw \in { R(0), R(1) } }

\* an exception in the place of an angle
HasRaised(v) == "exc" \in DOMAIN v

\* math.asin(v): the exception it raises, or its value
AsinOf(v) == IF AsinInDomain(v) THEN asin(v) ELSE Raise("ValueError")

\* math.asin(a / b)
AsinOfQuotient(a, b) ==
    IF RIsZero(b) THEN Raise("ZeroDivisionError") ELSE AsinOf(RDiv(a, b))

\* lines 29-33, 94-98 and 158-159: the angles of the gap and of the
\* termination, or the first exception on the way
TurnAngles(a) ==
    LET inner == AsinOfQuotient(a.gap, a.inner_radius)
        outer == AsinOfQuotient(a.gap, a.outer_radius)
        term  == IF a.cls = "InnerTurn" THEN Zero
                 ELSE AsinOfQuotient(a.termination_width, RMul(R(2), a.outer_radius))
    IN  IF HasRaised(inner) THEN inner
        ELSE IF HasRaised(outer) THEN outer
        ELSE IF HasRaised(term) THEN term
        ELSE [kind |-> "Angles", inner_gap_angle |-> inner, outer_gap_angle |-> outer,
              term_angle |-> term]

\* lines 149-151: the assertion of InnerTurn; TopTurn and BottomTurn have none
TurnRadiiAccepted(a) == a.cls = "InnerTurn" => RLt(a.inner_radius, a.outer_radius)

\* the arguments whose angles the model computes: asin is rational, and
\* InnerTurn halves its gap angles
TurnQuotientRepresentable(a, b) ==
    RIsZero(b) \/ ~AsinInDomain(RDiv(a, b)) \/ AsinIsRational(RDiv(a, b))

TurnRepresentable(a) ==
    \/ ~TurnRadiiAccepted(a)
    \/ /\ TurnQuotientRepresentable(a.gap, a.inner_radius)
       /\ TurnQuotientRepresentable(a.gap, a.outer_radius)
       /\ a.cls # "InnerTurn" =>
              TurnQuotientRepresentable(a.termination_width, RMul(R(2), a.outer_radius))
       /\ (a.cls = "InnerTurn" /\ ~HasRaised(TurnAngles(a))) =>
              /\ HalfIsQuarter(TurnAngles(a).inner_gap_angle)
              /\ HalfIsQuarter(TurnAngles(a).outer_gap_angle)

TurnInputs == { a \in TurnArgs : TurnRepresentable(a) }

TurnInit ==
    /\ op = "Turn"
    /\ pc = "enter"
    /\ exc = "none"
    /\ result = None
    /\ sp \in TurnInputs
    /\ loc = None
    /\ self = None
    /\ CallIdle

\* the assertion and the angles: the part of __init__ before the first Arc
TurnCheck ==
    /\ op = "Turn"
    /\ pc = "enter"
    /\ IF ~TurnRadiiAccepted(sp)
       THEN /\ pc' = "raised"
            /\ exc' = "AssertionError"
            /\ UNCHANGED loc
       ELSE IF HasRaised(TurnAngles(sp))
       THEN /\ pc' = "raised"
            /\ exc' = TurnAngles(sp).exc
            /\ UNCHANGED loc
       ELSE /\ pc' = "angles"
            /\ loc' = TurnAngles(sp)
            /\ UNCHANGED exc
    /\ UNCHANGED <<op, result, sp, self, callVars>>

\* 2 * math.pi - a
TurnLess(a) == AngSub(Quarter(TWO_PI), a)

\* lines 35-65: the arcs and the termination of TopTurn
TopPoints(a, l) ==
    LET t  == l.term_angle
        tw == a.termination_width
        h  == RDiv(tw, R(2))
        v  == AngSub(AngSub(TurnLess(t), l.inner_gap_angle), a.viastrip_angle)
        w  == AngSub(TurnLess(t), l.inner_gap_angle)
    IN  << Arc(a.at, a.inner_radius, AngNeg(t), t),
           Arc(a.at, RAdd(a.inner_radius, a.viastrip_width), t, v),
           Arc(a.at, a.inner_radius, v, w),
           Arc(a.at, a.outer_radius, AngSub(TurnLess(t), l.outer_gap_angle), t),
           PointAdd(a.at, Point(RAdd(a.outer_radius, tw), h)),
           PointAdd(a.at, Point(RAdd(a.outer_radius, tw), RNeg(h))),
           PointAdd(a.at, Point(RMul(a.outer_radius, Cos(t)), RNeg(h))) >>

\* lines 100-130: the arcs and the termination of BottomTurn
BottomPoints(a, l) ==
    LET t  == l.term_angle
        tw == a.termination_width
        h  == RDiv(tw, R(2))
        v  == AngAdd(AngAdd(t, l.inner_gap_angle), a.viastrip_angle)
        w  == AngAdd(t, l.inner_gap_angle)
    IN  << Arc(a.at, a.inner_radius, t, AngNeg(t)),
           Arc(a.at, RAdd(a.inner_radius, a.viastrip_width), TurnLess(t), v),
           Arc(a.at, a.inner_radius, v, w),
           Arc(a.at, a.outer_radius, AngAdd(t, l.outer_gap_angle), TurnLess(t)),
           PointAdd(a.at, Point(RAdd(a.outer_radius, tw), RNeg(h))),
           PointAdd(a.at, Point(RAdd(a.outer_radius, tw), h)),
           PointAdd(a.at, Point(RMul(a.outer_radius, Cos(t)), h)) >>

\* lines 162-188: the arcs of InnerTurn
InnerPoints(a, l) ==
    LET gi == AngHalf(l.inner_gap_angle)
        go == AngHalf(l.outer_gap_angle)
        s  == AngAdd(gi, a.rotation)
        v  == AngAdd(AngAdd(gi, a.viastrip_angle), a.rotation)
        w  == AngAdd(AngSub(AngSub(Quarter(TWO_PI), gi), a.viastrip_angle), a.rotation)
        e  == AngAdd(AngSub(Quarter(TWO_PI), gi), a.rotation)
    IN  << Arc(a.at, a.inner_radius, s, v),
           Arc(a.at, RAdd(a.inner_radius, a.viastrip_width), v, w),
           Arc(a.at, a.inner_radius, w, e),
           Arc(a.at, a.outer_radius, AngAdd(AngSub(Quarter(TWO_PI), go), a.rotation),
               AngAdd(go, a.rotation)) >>

TurnPoints(a, l) ==
    CASE a.cls = "TopTurn"    -> TopPoints(a, l)
      [] a.cls = "BottomTurn" -> BottomPoints(a, l)
      [] OTHER                -> InnerPoints(a, l)

\* the arcs are made and the polygon is stored
TurnBuild ==
    /\ op = "Turn"
    /\ pc = "angles"
    /\ pc' = "constructed"
    /\ self' = [inner_radius |-> sp.inner_radius, outer_radius |-> sp.outer_radius,
                layer |-> sp.layer,
                polygon |-> NewPolygon(TurnPoints(sp, loc), sp.layer, R(0), "solid")]
    /\ UNCHANGED <<op, exc, result, sp, loc, callVars>>

(***************************************************************************)
(* windings/single.py: ViaStrip.  The angles of a strip are rational       *)
(* numbers of radians, so the number of vias is decided exactly; the       *)
(* location of a via, at + (via_radius cos(angle), via_radius sin(angle)),  *)
(* is kept as its center, radius and angle.                                *)
(***************************************************************************)
\* line 204
min_spacing == Rat(1, 2)

\* int(q): the integer towards 0
IntOf(q) == IF q.n >= 0 THEN q.n \div q.d ELSE -((-q.n) \div q.d)

ViaArgs ==
    { [at |-> Origin, layers |-> <<"F.Cu", "B.Cu">>, inner_radius |-> r,
       start_angle |-> s, end_angle |-> e, size |-> R(1), drill |-> d] :
        r \in { R(-3), R(0), Rat(1, 2), R(3), R(6) },
        s \in { R(0), R(1), Rat(3, 2) }, e \in { R(0), R(1), Rat(3, 2) },
        d \in { Rat(1, 2), Rat(3, 2) } }

ViaStripInit ==
    /\ op = "ViaStrip"
    /\ pc = "enter"
    /\ exc = "none"
    /\ result = None
    /\ sp \in ViaArgs
    /\ loc = None
    /\ self = None
    /\ CallIdle

\* lines 207-209: how many vias fit in the strip
ViaCount ==
    /\ op = "ViaStrip"
    /\ pc = "enter"
    /\ LET angle_    == RSub(sp.end_angle, sp.start_angle)
           width     == RMul(sp.inner_radius, RAbs(angle_))
           pitch     == RAdd(sp.drill, min_spacing)
       IN  IF RIsZero(pitch)
           THEN /\ pc' = "raised"
                /\ exc' = "ZeroDivisionError"
                /\ UNCHANGED loc
           ELSE /\ pc' = "counted"
                /\ loc' = [angle |-> angle_, width |-> width,
                           number_vias |-> IntOf(RDiv(width, pitch))]
                /\ UNCHANGED exc
    /\ UNCHANGED <<op, result, sp, self, callVars>>

\* line 215: initial_angle + n * delta_angle
ViaAngle(initial_angle, n, delta_angle) ==
    RAdd(initial_angle, RMul(R(n), delta_angle))

\* lines 216-222: Via(location + at, size, drill, layers)
Via(a, via_radius, at_angle) ==
    [at |-> [center |-> a.at, radius |-> via_radius, angle |-> at_angle],
     size |-> a.size, drill |-> a.drill, layers |-> a.layers]

\* lines 212-222: the vias; range(number_vias) is empty for a negative number
ViaPlace ==
    /\ op = "ViaStrip"
    /\ pc = "counted"
    /\ IF loc.number_vias = 0
       THEN /\ pc' = "raised"
            /\ exc' = "ZeroDivisionError"
            /\ UNCHANGED self
       ELSE LET via_radius    == RAdd(sp.inner_radius, RDiv(sp.size, R(2)))
                delta_angle   == RDiv(loc.angle, R(loc.number_vias))
                initial_angle == RAdd(sp.start_angle, RDiv(delta_angle, R(2)))
            IN  /\ pc' = "constructed"
                /\ self' = [vias |-> [n \in 1..loc.number_vias |->
                                Via(sp, via_radius,
                                    ViaAngle(initial_angle, n - 1, delta_angle))]]
                /\ UNCHANGED exc
    /\ UNCHANGED <<op, result, sp, loc, callVars>>

(***************************************************************************)
(* kicad.py: Footprint.  A script makes footprints and appends to their    *)
(* contents.  Lists are objects: loc is the memory, a sequence of lists,   *)
(* and a footprint holds the position of its list in it.  The list of the  *)
(* default contents=[] is made once, when __init__ is defined, and is the  *)
(* first one.                                                              *)
(***************************************************************************)
MaxFootprints == 3

MaxContents == 2

Items == { "pad", "via" }

\* the lists a caller passes as contents: a new list in every call
GivenContents == { << >>, <<"pad">>, <<"pad", "via">> }

\* line 93: the one list the parameter contents defaults to
DefaultContents == 1

FootprintInit ==
    /\ op = "Footprint"
    /\ pc = "defined"
    /\ exc = "none"
    /\ result = None
    /\ sp = None
    /\ loc = << << >> >>
    /\ self = << >>
    /\ CallIdle

\* lines 95-97: name, version and the list that was passed, not a copy
NewFootprint(name, version, contents) ==
    [name |-> name, version |-> version, contents |-> contents]

\* Footprint(name)
FootprintDefault ==
    /\ op = "Footprint"
    /\ Len(self) < MaxFootprints
    /\ pc' = "default"
    /\ self' = Append(self, NewFootprint("fp", "20211014", DefaultContents))
    /\ UNCHANGED <<op, exc, result, sp, loc, callVars>>

\* Footprint(name, version, [...])
FootprintGiven ==
    /\ op = "Footprint"
    /\ Len(self) < MaxFootprints
    /\ \E c \in GivenContents :
         /\ loc' = Append(loc, c)
         /\ self' = Append(self, NewFootprint("fp", "20220101", Len(loc) + 1))
    /\ pc' = "given"
    /\ UNCHANGED <<op, exc, result, sp, callVars>>

\* footprint.contents.append(item)
ContentsAppend ==
    /\ op = "Footprint"
    /\ \E f \in 1..Len(self), item \in Items :
         /\ Len(loc[self[f].contents]) < MaxContents
         /\ loc' = [loc EXCEPT ![self[f].contents] = Append(@, item)]
         /\ result' = f
    /\ pc' = "appended"
    /\ UNCHANGED <<op, exc, sp, self, callVars>>

(***************************************************************************)
(* kicad.py: Pad, Via, Reference, Value and their __str__.  An expression  *)
(* is kept as its clauses, a number in it as the value the text denotes.   *)
(***************************************************************************)

\* the numbers given to the constructors: floats x whose product x*1e3 is
\* printed as the exact product
KicadNumbers == { Rat(1, 2), Rat(4, 5), Rat(3, 2), R(2), Rat(3, 2000), Rat(1, 5000) }

KicadPads ==
    { [cls |-> "Pad", pad_type |-> t, number |-> 1, at |-> Point(R(10), R(20)),
       size |-> s, layers |-> <<"*.Cu">>, drill |-> d, tstamp |-> "given"] :
        t \in { "TH", "SMD" }, s \in KicadNumbers,
        d \in { None, R(0) } \cup KicadNumbers }

KicadVias ==
    { [cls |-> "Via", at |-> Point(R(10), R(20)), size |-> s, drill |-> d,
       layers |-> <<"F.Cu">>, tstamp |-> "given"] :
        s \in KicadNumbers, d \in KicadNumbers }

KicadTexts ==
    { [cls |-> c, at |-> Point(R(10), R(20)), font_size |-> f, thickness |-> t,
       justification |-> "center", tstamp |-> "given"] :
        c \in { "Reference", "Value" }, f \in KicadNumbers, t \in KicadNumbers }

StrInit ==
    /\ op = "__str__"
    /\ pc = "enter"
    /\ exc = "none"
    /\ result = None
    /\ sp \in KicadPads \cup KicadVias \cup KicadTexts
    /\ loc = None
    /\ self = None
    /\ CallIdle

\* x*1e3 in an f-string
TimesThousand(x) == RMul(x, R(1000))

\* geometry.py lines 42-43: f"{self.x} {self.y}"
PointStr(p) == <<p.x, p.y>>

\* lines 12-16
PadTypeStr(t) == IF t = "TH" THEN "thru_hole" ELSE "smd"

\* line 32: None and 0 are both false
HasDrill(a) == a.drill # None /\ ~RIsZero(a.drill)

\* lines 31-35
PadStr(a) ==
    LET clauses ==
            [head |-> "pad", number |-> a.number, type |-> PadTypeStr(a.pad_type),
             shape |-> IF a.pad_type = "TH" THEN "circle" ELSE "rect",
             at |-> PointStr(a.at),
             size |-> <<TimesThousand(a.size), TimesThousand(a.size)>>,
             layers |-> a.layers, tstamp |-> a.tstamp]
    IN  IF HasDrill(a)
        THEN [k \in DOMAIN clauses \cup { "drill" } |->
                IF k = "drill" THEN <<TimesThousand(a.drill)>> ELSE clauses[k]]
        ELSE clauses

\* lines 53-55
ViaStr(a) ==
    [head |-> "via", at |-> PointStr(a.at), size |-> <<TimesThousand(a.size)>>,
     drill |-> <<TimesThousand(a.drill)>>, layers |-> a.layers,
     remove_unused_layers |-> TRUE, tstamp |-> a.tstamp]

\* lines 68 and 83
TextStr(a) ==
    [head |-> "fp_text", text |-> IF a.cls = "Reference" THEN "Ref**" ELSE "Val**",
     at |-> PointStr(a.at),
     size |-> <<TimesThousand(a.font_size), TimesThousand(a.font_size)>>,
     thickness |-> <<TimesThousand(a.thickness)>>,
     justify |-> a.justification, tstamp |-> a.tstamp]

StrOf(a) ==
    CASE a.cls = "Pad" -> PadStr(a)
      [] a.cls = "Via" -> ViaStr(a)
      [] OTHER -> TextStr(a)

Str ==
    /\ op = "__str__"
    /\ pc = "enter"
    /\ pc' = "returned"
    /\ result' = StrOf(sp)
    /\ UNCHANGED <<op, exc, sp, loc, self, callVars>>

(***************************************************************************)
(* inductors/cffc.py: Cffc and the Winding it builds.  An angle of the     *)
(* winding is p * pi + q radians with p and q rational, and asin is exact  *)
(* at 0, 1/2 and 1.  A turn is kept as its class, radii and layer (its     *)
(* polygon is the one of windings/single.py above), a via as its size,     *)
(* drill and layers.                                                       *)
(***************************************************************************)
MaxNumberTurns == 6

Hundredths(s) == [k \in 1..Len(s) |-> Rat(s[k], 100)]

\* creepage.py lines 35-45: a voltage and the distance of each classification
CREEPAGE_TABLE ==
    << <<15,  Hundredths(<<5, 10, 10, 5, 13, 13, 13>>)>>,
       <<30,  Hundredths(<<5, 10, 10, 5, 13, 25, 13>>)>>,
       <<50,  Hundredths(<<10, 60, 60, 13, 13, 40, 13>>)>>,
       <<100, Hundredths(<<10, 60, 150, 13, 13, 50, 13>>)>>,
       <<150, Hundredths(<<20, 60, 320, 40, 40, 80, 40>>)>>,
       <<170, Hundredths(<<20, 125, 320, 40, 40, 80, 40>>)>>,
       <<250, Hundredths(<<20, 125, 640, 40, 40, 80, 40>>)>>,
       <<300, Hundredths(<<20, 125, 1250, 40, 40, 80, 40>>)>>,
       <<500, Hundredths(<<25, 250, 1250, 80, 80, 150, 80>>)>> >>

\* creepage.py lines 47-55
PER_VOLT_TABLE ==
    << Rat(25, 10000), Rat(5, 1000), Rat(25, 1000), Rat(305, 100000),
       Rat(305, 100000), Rat(305, 100000), Rat(305, 100000) >>

\* creepage.py lines 58-80; classification is the value of the Classification
calculate_creepage(voltage, classification) ==
    LET rows == { k \in 1..Len(CREEPAGE_TABLE) : CREEPAGE_TABLE[k][1] >= voltage }
        first == CHOOSE k \in rows : \A j \in rows : k <= j
        base_volt == CREEPAGE_TABLE[Len(CREEPAGE_TABLE)][2][classification]
        per_volt  == PER_VOLT_TABLE[classification]
    IN  IF rows # {}
        THEN CREEPAGE_TABLE[first][2][classification]
        ELSE RAdd(base_volt, RMul(R(voltage - 500), per_volt))

\* Classification.B4, the default of Cffc
B4 == 4

\* the angle p * pi + q radians
PiAngle(p, q) == [p |-> p, q |-> q]

PiAdd(a, b) == PiAngle(RAdd(a.p, b.p), RAdd(a.q, b.q))

PiSub(a, b) == PiAngle(RSub(a.p, b.p), RSub(a.q, b.q))

PiNeg(a) == PiAngle(RNeg(a.p), RNeg(a.q))

PiTimes(k, a) == PiAngle(RMul(k, a.p), RMul(k, a.q))

\* a / k for k # 0
PiOver(a, k) == PiAngle(RDiv(a.p, k), RDiv(a.q, k))

\* two rational numbers with pi between them
PiBelow == Rat(333, 106)

PiAbove == Rat(355, 113)

\* two rational numbers with the angle a between them
AngleBelow(a) == RAdd(RMul(a.p, IF a.p.n >= 0 THEN PiBelow ELSE PiAbove), a.q)

AngleAbove(a) == RAdd(RMul(a.p, IF a.p.n >= 0 THEN PiAbove ELSE PiBelow), a.q)

\* math.asin(v) is a rational part of pi exactly here
AsinIsExact(v) == RAbs(v) \in { R(0), Rat(1, 2), R(1) }

\* math.asin(v) for v with AsinIsExact(v)
AsinExact(v) ==
    LET a == IF RAbs(v) = R(1) THEN Rat(1, 2)
             ELSE IF RAbs(v) = Rat(1, 2) THEN Rat(1, 6) ELSE R(0)
    IN  PiAngle(IF v.n < 0 THEN RNeg(a) ELSE a, R(0))

\* the exception of math.asin(a / b), "none" when it returns
AsinExc(a, b) ==
    IF RIsZero(b) THEN "ZeroDivisionError"
    ELSE IF ~AsinInDomain(RDiv(a, b)) THEN "ValueError" ELSE "none"

\* the first of the exceptions es that is one
FirstExc(es) ==
    LET raised == { k \in 1..Len(es) : es[k] # "none" }
    IN  IF raised = {} THEN "none"
        ELSE es[CHOOSE k \in raised : \A j \in raised : k <= j]

\* windings/single.py lines 29-33 and 94-98: the exception that ends the
\* construction of a TopTurn or BottomTurn, "none" when it is constructed
OuterTurnExc(inner_radius, outer_radius, gap, termination_width) ==
    FirstExc(<< AsinExc(gap, inner_radius), AsinExc(gap, outer_radius),
                AsinExc(termination_width, RMul(R(2), outer_radius)) >>)

\* windings/single.py lines 149-159: the same for an InnerTurn
InnerTurnExc(inner_radius, outer_radius, gap) ==
    IF ~RLt(inner_radius, outer_radius) THEN "AssertionError"
    ELSE FirstExc(<< AsinExc(gap, inner_radius), AsinExc(gap, outer_radius) >>)

\* lines 56-68: f"In{n}.Cu"
InnerLayer(n) == "In" \o ToString(n) \o ".Cu"

\* a turn that was constructed
CffcTurn(cls, a, layer) ==
    [cls |-> cls, inner_radius |-> a.inner_radius, outer_radius |-> a.outer_radius,
     layer |-> layer]

\* Cffc.__init__ lines 148-151
CffcTerminationWidth(a) ==
    IF a.termination_width = None THEN RSub(a.outer_radius, a.inner_radius)
    ELSE a.termination_width

\* windings/single.py lines 207-209 with the angle between two bounds: the
\* number of vias from either bound
ViasFrom(inner_radius, angle_, drill) ==
    IntOf(RDiv(RMul(inner_radius, RAbs(angle_)), RAdd(drill, min_spacing)))

\* the angle has a sign and the number of vias is the same from both bounds
ViasDecided(inner_radius, a, drill) ==
    /\ (AngleBelow(a).n > 0) = (AngleAbove(a).n > 0)
    /\ (AngleBelow(a).n < 0) = (AngleAbove(a).n < 0)
    /\ ViasFrom(inner_radius, AngleBelow(a), drill) = ViasFrom(inner_radius, AngleAbove(a), drill)

\* lines 27-42 of Winding.__init__
WindingAnglesOf(inner_radius, outer_radius, number_layers, gap, termination_width) ==
    LET inner_gap_angle == AsinExact(RDiv(gap, inner_radius))
        term_angle      == AsinExact(RDiv(termination_width, outer_radius))
        angle_for_transitions ==
            PiSub(PiSub(PiAngle(R(2), R(0)), term_angle),
                  PiAngle(R(0), RDiv(RMul(R(number_layers), gap), inner_radius)))
        viastrip_angle  == PiOver(angle_for_transitions, R(number_layers - 1))
    IN  [inner_gap_angle |-> inner_gap_angle, term_angle |-> term_angle,
         viastrip_angle |-> viastrip_angle,
         initial_rotation |-> PiOver(PiAdd(term_angle, inner_gap_angle), R(2)),
         rotation_per_turn |-> PiAdd(viastrip_angle, inner_gap_angle)]

CffcArgs ==
    { [inner_radius |-> ri, outer_radius |-> ro, number_turns |-> n, voltage |-> v,
       classification |-> B4, termination_width |-> tw] :
        ri \in { R(0), Rat(2, 5), Rat(4, 5), Rat(8, 5), Rat(141, 50) },
        ro \in { R(0), Rat(4, 5), Rat(8, 5), Rat(16, 5), Rat(141, 25) },
        n \in 0..MaxNumberTurns, v \in { 300, 500, 700 },
        tw \in { None, R(0), Rat(16, 5) } }

\* the arguments whose angles and numbers of vias the model computes
CffcRepresentable(a) ==
    LET gap == calculate_creepage(a.voltage, a.classification)
        tw  == CffcTerminationWidth(a)
        L   == a.number_turns + 1
    IN  \/ AsinExc(gap, a.inner_radius) # "none"
        \/ /\ AsinIsExact(RDiv(gap, a.inner_radius))
           /\ \/ AsinExc(tw, a.outer_radius) # "none"
              \/ /\ AsinIsExact(RDiv(tw, a.outer_radius))
                 /\ \/ L = 1
                    \/ ViasDecided(a.inner_radius,
                           WindingAnglesOf(a.inner_radius, a.outer_radius, L, gap, tw).viastrip_angle,
                           Rat(2, 5))

CffcInputs == { a \in CffcArgs : CffcRepresentable(a) }

CffcInit ==
    /\ op = "Cffc"
    /\ pc = "enter"
    /\ exc = "none"
    /\ result = None
    /\ sp \in CffcInputs
    /\ loc = None
    /\ self = None
    /\ CallIdle

\* Cffc.__init__ lines 140-164, up to the call of Winding: loc holds the
\* arguments of Winding.__init__
CffcEnter ==
    /\ op = "Cffc"
    /\ pc = "enter"
    /\ pc' = "winding"
    /\ self' = [inner_radius |-> sp.inner_radius, outer_radius |-> sp.outer_radius,
                termination_width |-> CffcTerminationWidth(sp),
                number_turns |-> sp.number_turns, number_layers |-> sp.number_turns + 1]
    /\ loc' = [at |-> Origin, inner_radius |-> sp.inner_radius,
               outer_radius |-> sp.outer_radius, number_layers |-> sp.number_turns + 1,
               gap |-> calculate_creepage(sp.voltage, sp.classification),
               termination_width |-> CffcTerminationWidth(sp), viastrip_width |-> R(1)]
    /\ UNCHANGED <<op, exc, result, sp, callVars>>

\* Winding.__init__ lines 21-42: the angles, or the first exception
WindingAngles ==
    /\ op = "Cffc"
    /\ pc = "winding"
    /\ LET e == FirstExc(<< AsinExc(loc.gap, loc.inner_radius),
                            AsinExc(loc.termination_width, loc.outer_radius),
                            IF loc.number_layers = 1 THEN "ZeroDivisionError" ELSE "none" >>)
       IN  IF e # "none"
           THEN /\ pc' = "raised"
                /\ exc' = e
                /\ UNCHANGED loc
           ELSE /\ pc' = "turns"
                /\ loc' = loc @@
                          WindingAnglesOf(loc.inner_radius, loc.outer_radius,
                                          loc.number_layers, loc.gap, loc.termination_width)
                /\ UNCHANGED exc
    /\ UNCHANGED <<op, result, sp, self, callVars>>

\* an inner turn for every layer after the top one
WindingInnersToLast(l) ==
    [n \in 1..(l.number_layers - 1) |-> CffcTurn("InnerTurn", l, InnerLayer(n))]

\* lines 56-68: the inner turns, range(1, number_layers - 1)
WindingInners(l) ==
    [n \in 1..(l.number_layers - 2) |-> CffcTurn("InnerTurn", l, InnerLayer(n))]

\* Winding.__init__ lines 46-79: top, inners and bottom, in the order they
\* are constructed
WindingTurns ==
    /\ op = "Cffc"
    /\ pc = "turns"
    /\ LET outer == OuterTurnExc(loc.inner_radius, loc.outer_radius, loc.gap,
                                 loc.termination_width)
           inner == IF loc.number_layers - 2 >= 1
                    THEN InnerTurnExc(loc.inner_radius, loc.outer_radius, loc.gap)
                    ELSE "none"
           e     == FirstExc(<<outer, inner>>)
       IN  IF e # "none"
           THEN /\ pc' = "raised"
                /\ exc' = e
                /\ UNCHANGED loc
           ELSE /\ pc' = "viastrips"
                /\ loc' = loc @@
                       [turns |-> <<CffcTurn("TopTurn", loc, "F.Cu")>>
                                     \o WindingInners(loc)
                                     \o <<CffcTurn("BottomTurn", loc, "B.Cu")>>]
                /\ UNCHANGED exc
    /\ UNCHANGED <<op, result, sp, self, callVars>>

\* line 84: the layers of each turn and the next one
WindingLayers(turns) ==
    [k \in 1..(Len(turns) - 1) |-> <<turns[k].layer, turns[k + 1].layer>>]

\* lines 86-97, for n counted from 0: the arguments of ViaStrip number n
WindingStripArgs(l, n) ==
    LET initial_angle == PiAdd(l.initial_rotation, PiOver(l.inner_gap_angle, R(2)))
        start == PiSub(PiNeg(initial_angle), PiTimes(R(n), l.rotation_per_turn))
    IN  [at |-> l.at, layers |-> WindingLayers(l.turns)[n + 1],
         inner_radius |-> l.inner_radius, start_angle |-> start,
         end_angle |-> PiSub(start, l.viastrip_angle),
         size |-> Rat(4, 5), drill |-> Rat(2, 5)]

\* windings/single.py lines 207-209: number_vias of the strip
StripVias(a) ==
    ViasFrom(a.inner_radius, AngleBelow(PiSub(a.end_angle, a.start_angle)), a.drill)

\* windings/single.py lines 212-222: the strip, its vias without their location
WindingStrip(a) ==
    [layers |-> a.layers, start_angle |-> a.start_angle, end_angle |-> a.end_angle,
     vias |-> [j \in 1..StripVias(a) |->
                  [size |-> a.size, drill |-> a.drill, layers |-> a.layers]]]

\* Winding.__init__ lines 82-97 and Cffc.__init__ line 157: the via strips,
\* and the winding is stored
WindingViaStrips ==
    /\ op = "Cffc"
    /\ pc = "viastrips"
    /\ LET strips == [k \in 1..(loc.number_layers - 1) |-> WindingStripArgs(loc, k - 1)]
       IN  IF \E k \in DOMAIN strips : StripVias(strips[k]) = 0
           THEN /\ pc' = "raised"
                /\ exc' = "ZeroDivisionError"
                /\ UNCHANGED self
           ELSE /\ pc' = "core"
                /\ self' = self @@
                       [winding |-> [number_layers |-> loc.number_layers,
                                     turns |-> loc.turns,
                                     viastrips |-> [k \in DOMAIN strips |->
                                                       WindingStrip(strips[k])]]]
                /\ UNCHANGED exc
    /\ UNCHANGED <<op, result, sp, loc, callVars>>

\* cores/cores.py and cores.py both define planar_magnetics.cores.Core
CoreModules == { "cores/cores.py", "cores.py" }

\* cores/cores.py lines 70-118 and 23: the exception that ends Core(...),
\* "none" when the core is constructed
CoreExc(centerpost_radius, window_width, opening_width) ==
    FirstExc(<< AsinExc(RDiv(opening_width, R(2)), RAdd(centerpost_radius, window_width)),
                IF RIsZero(centerpost_radius) THEN "ZeroDivisionError" ELSE "none" >>)

\* Cffc.__init__ lines 166-176: the core.  Core of cores.py has no argument
\* centerpost_radius
CffcCore ==
    /\ op = "Cffc"
    /\ pc = "core"
    /\ \E m \in CoreModules :
          LET edge_to_trace == Rat(635, 1000)
              edge_to_core  == Rat(1, 2)
              edges == RMul(R(2), RAdd(edge_to_core, edge_to_trace))
              e == IF m = "cores.py" THEN "TypeError"
                   ELSE CoreExc(RSub(RSub(sp.inner_radius, edge_to_trace), edge_to_core),
                                RAdd(RSub(sp.outer_radius, sp.inner_radius), edges),
                                RAdd(self.termination_width, edges))
          IN  IF e # "none"
              THEN /\ pc' = "raised"
                   /\ exc' = e
              ELSE /\ pc' = "constructed"
                   /\ UNCHANGED exc
    /\ UNCHANGED <<op, result, sp, loc, self, callVars>>

(***************************************************************************)
(* The dataclass field  tstamp: uuid.UUID = uuid.uuid4()  of Polygon, Pad, *)
(* Via, Reference and Value.  One process imports the modules and then     *)
(* makes instances.  uuid.uuid4() returns a value it never returned        *)
(* before: the values are numbered, loc.next is the number of the next     *)
(* one.  An instance is kept as its class, its tstamp, whether the tstamp  *)
(* was given, and the instance it was derived from (0 for none); of the    *)
(* points of a polygon only whether there are any is kept.                 *)
(***************************************************************************)
MaxInstances == 2

\* the classes in the order their definitions are executed: kicad.py
\* imports geometry.py on line 2
TstampClasses == <<"Polygon", "Pad", "Via", "Reference", "Value">>

TstampInit ==
    /\ op = "tstamp"
    /\ pc = "import"
    /\ exc = "none"
    /\ result = None
    /\ sp = None
    /\ loc = None
    /\ self = None
    /\ CallIdle

\* geometry.py line 187, kicad.py lines 27, 45, 64 and 79: the class bodies
\* are executed, each calls uuid.uuid4() and keeps the value as the default
DefineClasses ==
    /\ op = "tstamp"
    /\ pc = "import"
    /\ pc' = "script"
    /\ loc' = [defaults |-> [c \in { TstampClasses[k] : k \in DOMAIN TstampClasses } |->
                                CHOOSE k \in DOMAIN TstampClasses : TstampClasses[k] = c],
               next |-> Len(TstampClasses) + 1]
    /\ self' = << >>
    /\ UNCHANGED <<op, exc, result, sp, callVars>>

\* a value made once for every instance that is given none
FactoryDefault(l, cls) == l.next

\* the generated __init__ of a dataclass: a parameter that is not given
\* takes the value the class body stored
FieldDefault(l, cls) == l.defaults[cls]

Instance(cls, tstamp, given, from, empty) ==
    [cls |-> cls, tstamp |-> tstamp, given |-> given, from |-> from, empty |-> empty]

\* cls(...), without a tstamp or with tstamp=uuid.uuid4()
NewInstance ==
    /\ op = "tstamp"
    /\ pc = "script"
    /\ Len(self) < MaxInstances
    /\ \E k \in DOMAIN TstampClasses, given \in BOOLEAN, empty \in BOOLEAN :
          /\ empty => TstampClasses[k] = "Polygon"
          /\ self' = Append(self,
                 Instance(TstampClasses[k],
                          IF given THEN loc.next ELSE FieldDefault(loc, TstampClasses[k]),
                          given, 0, empty))
          /\ loc' = [loc EXCEPT !.next = IF given THEN @ + 1 ELSE @]
    /\ UNCHANGED <<op, pc, exc, result, sp, callVars>>

\* the functions that make a polygon from a polygon
Derivations == { "Polygon.__add__", "Polygon.__mul__", "smooth_polygon" }

\* the exceptions that may end the derivation of a polygon, "none" for a
\* polygon that is returned: __add__ returns; __mul__ returns for no points
\* (geometry.py 194-197); smooth_polygon raises IndexError for no points
\* and returns or raises for others (smoothing.py 220-229)
DerivationEnds(how, empty) ==
    CASE how = "Polygon.__add__" -> { "none" }
      [] how = "Polygon.__mul__" -> IF empty THEN { "none" } ELSE { "TypeError" }
      [] OTHER -> IF empty THEN { "IndexError" }
                  ELSE { "none", "AttributeError", "ZeroDivisionError", "ValueError" }

\* geometry.py lines 189-197 and smoothing.py line 229:
\* Polygon(points, layer, width, fill), no tstamp is given
DerivePolygon ==
    /\ op = "tstamp"
    /\ pc = "script"
    /\ Len(self) < MaxInstances
    /\ \E k \in DOMAIN self, how \in Derivations :
          /\ self[k].cls = "Polygon"
          /\ \E e \in DerivationEnds(how, self[k].empty) :
                IF e = "none"
                THEN /\ self' = Append(self,
                            Instance("Polygon", FieldDefault(loc, "Polygon"), FALSE, k,
                                     self[k].empty))
                     /\ UNCHANGED <<pc, exc>>
                ELSE /\ pc' = "raised"
                     /\ exc' = e
                     /\ UNCHANGED self
    /\ UNCHANGED <<op, result, sp, loc, callVars>>

vars ==
    <<op, pc, exc, result, polygon, radius, arcs, i, calls, point, arc,
      max_angle, angle, points, angles, sp, loc, self>>

Init ==
    \/ SmoothInit
    \/ SpaInit
    \/ InterpInit
    \/ SpiralInit
    \/ PwlInit
    \/ PolyInit
    \/ TransformInit
    \/ ArcInit
    \/ PointEqInit
    \/ TurnInit
    \/ ViaStripInit
    \/ FootprintInit
    \/ StrInit
    \/ CffcInit
    \/ TstampInit

Next ==
    \/ SmoothEnter
    \/ SmoothLoop
    \/ SmoothWrap
    \/ SpaCall
    \/ InterpEnter
    \/ InterpStep
    \/ InterpReturn
    \/ SpiralCheck
    \/ SpiralInner
    \/ SpiralOuter
    \/ SpiralStore
    \/ SpiralSmoothRaises
    \/ EstimateDcr
    \/ PwlLoop
    \/ PwlReturn
    \/ PolyLoop
    \/ PolyReturn
    \/ PolygonAdd
    \/ PolygonMul
    \/ ArcPostInit
    \/ ArcRotates
    \/ ArcInterpolate
    \/ PointCompare
    \/ TurnCheck
    \/ TurnBuild
    \/ ViaCount
    \/ ViaPlace
    \/ FootprintDefault
    \/ FootprintGiven
    \/ ContentsAppend
    \/ Str
    \/ CffcEnter
    \/ WindingAngles
    \/ WindingTurns
    \/ WindingViaStrips
    \/ CffcCore
    \/ DefineClasses
    \/ NewInstance
    \/ DerivePolygon

Spec == Init /\ [][Next]_vars

(***************************************************************************)
(* The properties                                                          *)
(***************************************************************************)
Smoothed == op = "smooth_polygon" /\ pc = "returned"

\* the end point of a coincides with the start point of b within the
\* tolerance of Point.__eq__
Continuous(a, b) == PointEq(ArcEnd(a), ArcStart(b))

\* the element after element k of a list, cyclically
After(q, k) == q[(k % Len(q)) + 1]

\* C1: in every Polygon smooth_polygon returns for a radius > 0, the end
\* point of every element coincides within the Point tolerance with the
\* start point of the element after it, the pair last -> first included.
C1_SmoothedPolygonIsContinuous ==
    (Smoothed /\ RLt(R(0), radius)) =>
        \A k \in 1..Len(result.pts) : Continuous(result.pts[k], After(result.pts, k))

SameCircle(a, b) == a.center = b.center /\ a.radius = b.radius

RECURSIVE DerivedFrom(_, _, _, _, _)
\* the list out is, from element j on, made of one group for each junction
\* from the k-th on: at most two fillets of radius r, then one arc on the
\* circle of the input arc the junction leads to
DerivedFrom(out, j, pts, k, r) ==
    IF k > Len(pts) THEN j = Len(out) + 1
    ELSE \E f \in 0..2 :
            /\ j + f <= Len(out)
            /\ \A m \in j..(j + f - 1) : out[m].radius = r
            /\ SameCircle(out[j + f], After(pts, k))
            /\ DerivedFrom(out, j + f + 1, pts, k + 1, r)

ArcOnly(pts) == \A k \in 1..Len(pts) : IsArc(pts[k])

\* C2: when smooth_polygon returns for a polygon of n >= 2 arcs, it has run
\* round_corner exactly n times: call k < n on the arc derived from input k
\* and on input k + 1, call n on the arcs derived from input n and input 1.
\* The output holds, for each junction in turn, 0 to 2 fillets of the
\* requested radius and then one arc with the center and radius of the input
\* arc after the junction, so it has between n and 3n elements.
C2_OneCornerForEachCyclicPair ==
    (Smoothed /\ ArcOnly(polygon)) =>
        LET n == Len(polygon)
        IN  /\ n >= 2
            /\ Len(calls) = n
            /\ \A k \in 1..n :
                  /\ calls[k].exc = "none"
                  /\ SameCircle(calls[k].arc1, polygon[k])
                  /\ SameCircle(calls[k].arc2, After(polygon, k))
            /\ \A k \in 1..(n - 1) : calls[k].arc2 = polygon[k + 1]
            /\ DerivedFrom(result.pts, 1, polygon, 1, radius)
            /\ n <= Len(result.pts)
            /\ Len(result.pts) <= 3 * n

\* three arcs, a fillet pair at each of the three junctions
C2_Witness ==
    /\ Smoothed
    /\ Len(polygon) = 3
    /\ Len(calls) = 3
    /\ Len(result.pts) = 9

C4_FilletIsTangent ==
    (op = "smooth_point_to_arc" /\ pc = "returned" /\ IsCorner(result)
     /\ RLt(R(0), radius)) =>
        LET d2 == Norm2(PointSub(result.center, arc.center))
            lo == RSub(arc.radius, radius)
            hi == RAdd(arc.radius, radius)
        IN  /\ result.radius = radius
            /\ get_distance(result.center, point, ArcStart(arc)) = radius
            /\ d2 = RMul(lo, lo) \/ d2 = RMul(hi, hi)

\* a fillet inside the arc's circle and one outside of it are returned
C4_Witness ==
    /\ op = "smooth_point_to_arc"
    /\ pc = "returned"
    /\ IsCorner(result)
    /\ SpaHead(point, arc, radius).corner_inside_arc
    /\ result.center # arc.center

\* arc1.end coincides with arc2.start and the centers are as far apart as
\* the sum or the difference of the radii
MutuallyTangent(arc1, arc2) ==
    LET d2   == Norm2(PointSub(arc1.center, arc2.center))
        sum  == RAdd(arc1.radius, arc2.radius)
        diff == RSub(arc1.radius, arc2.radius)
    IN  /\ PointEq(ArcEnd(arc1), ArcStart(arc2))
        /\ d2 = RMul(sum, sum) \/ d2 = RMul(diff, diff)

\* C5: every call round_corner(arc1, arc2, radius) on two arcs that are
\* mutually tangent at their junction returns [arc1, arc2].
C5_TangentArcsPassThrough ==
    \A k \in 1..Len(calls) :
        (IsArc(calls[k].arc1) /\ IsArc(calls[k].arc2)
         /\ MutuallyTangent(calls[k].arc1, calls[k].arc2)) =>
            /\ calls[k].exc = "none"
            /\ calls[k].arcs = <<calls[k].arc1, calls[k].arc2>>

\* C6: smooth_polygon called with radius <= 0 raises before it runs
\* round_corner once, and returns nothing.
C6_RadiusIsCheckedFirst ==
    (op = "smooth_polygon" /\ RLe(radius, R(0))) =>
        /\ pc \in { "enter", "raised" }
        /\ pc = "raised" => exc = "AssertionError"
        /\ calls = << >>
        /\ arcs = << >>
        /\ result = None

\* a polygon of three arcs refused for the radius 0
C6_Witness ==
    /\ op = "smooth_polygon"
    /\ pc = "raised"
    /\ exc = "AssertionError"
    /\ radius = R(0)
    /\ Len(polygon) = 3

\* the trace width a spiral has room for: the radius delta between the
\* first two boundaries minus the gap, outer_radius - inner_radius for a
\* single turn
AvailableTraceWidth(a) ==
    IF RLt(R(1), a.num_turns) THEN RSub(RSub(NarrowRadii(a)[2], NarrowRadii(a)[1]), a.gap)
    ELSE RSub(a.outer_radius, a.inner_radius)

\* C7: a Spiral with num_turns >= 1 whose available trace width does not
\* exceed twice the fillet radius is refused before an Arc is built.
C7_NarrowSpiralBuildsNoArc ==
    (op = "Spiral" /\ TurnsAccepted(sp)
     /\ RLe(AvailableTraceWidth(sp), RMul(R(2), radius))) =>
        /\ arcs = << >>
        /\ pc \notin { "polygon", "constructed", "estimated" }

\* C8: estimate_dcr returns fractional_turns * narrow +
\* (1 - fractional_turns) * wide, the sums of the annulus resistances of the
\* two sections weighted by the fraction of a turn.
C8_DcrIsWeightedAverage ==
    (op = "Spiral" /\ pc = "estimated") =>
        result = ResAdd(ResScale(self.fractional_turns,
                                 NarrowDcr(self, sp.thickness, sp.rho)),
                        ResScale(RSub(R(1), self.fractional_turns),
                                 WideDcr(self, sp.thickness, sp.rho)))

\* the boundary radii of a spiral: the radii of calc_trace_widths and then
\* outer_radius
Boundaries(l, a) == Append(l.wide_radii, a.outer_radius)

\* C9: for an integer num_turns >= 1 and outer_radius > inner_radius > 0 the
\* boundary radii start at inner_radius and are strictly increasing up to
\* outer_radius.
C9_BoundaryRadiiIncrease ==
    (op = "Spiral" /\ loc # None /\ RIsZero(FractionalTurns(sp.num_turns))
     /\ RLt(R(0), sp.inner_radius) /\ RLt(sp.inner_radius, sp.outer_radius)) =>
        LET b == Boundaries(loc, sp)
        IN  /\ Len(b) = IntegerTurns(sp.num_turns) + 1
            /\ b[1] = sp.inner_radius
            /\ b[Len(b)] = sp.outer_radius
            /\ \A j \in 1..(Len(b) - 1) : RLt(b[j], b[j + 1])
            /\ self # None => self.wide_inner_radii = loc.wide_radii

\* a spiral of two turns with the radii 64, 216 and 729
C9_Witness ==
    /\ op = "Spiral"
    /\ pc = "constructed"
    /\ sp.num_turns = R(2)
    /\ Boundaries(loc, sp) = <<R(64), R(216), R(729)>>

\* C10: Arc.interpolate(max_angle) with max_angle > 0 returns points of the
\* arc at angles between start_angle and end_angle, the last one the arc's end point and, when start_angle # end_angle,
\* the first one the start point; the angles of consecutive points differ
\* by at most max_angle; when max_angle >= |end_angle - start_angle| > 0
\* there are exactly two points, (10, 0) and (0, 10) for
\* Arc((0, 0), 10, 0, pi/2) and the step pi/2.
C10_InterpolateEndsAtTheEnd ==
    (op = "interpolate" /\ pc = "returned" /\ AngGt(max_angle, Zero)) =>
        LET n == Len(result)
        IN  /\ n >= 1
            /\ Len(angles) = n
            /\ \A k \in 1..n :
                  /\ result[k] = InterpPoint(arc, angles[k])
                  /\ AngLe(AngAbs(AngSub(angles[k], arc.start_angle)), Span(arc))
                  /\ AngLe(AngAbs(AngSub(arc.end_angle, angles[k])), Span(arc))
            /\ result[n] = ArcEnd(arc)
            /\ arc.start_angle # arc.end_angle => result[1] = ArcStart(arc)
            /\ \A k \in 1..(n - 1) :
                  AngLe(AngAbs(AngSub(angles[k + 1], angles[k])), max_angle)
            /\ (Span(arc) # Zero /\ AngLe(Span(arc), max_angle)) => n = 2
            /\ (arc = Arc(Origin, R(10), Zero, Quarter(1)) /\ max_angle = Quarter(1)) =>
                  result = <<Point(R(10), R(0)), Point(R(0), R(10))>>

\* the quarter circle of radius 10 interpolated in one step of pi/2
C10_Witness ==
    /\ op = "interpolate"
    /\ pc = "returned"
    /\ arc = Arc(Origin, R(10), Zero, Quarter(1))
    /\ max_angle = Quarter(1)
    /\ Len(result) = 2

\* no two Points that follow each other in the polygon are the same point
NoRepeatedVertex(q) ==
    \A k \in 1..(Len(q) - 1) : (IsPoint(q[k]) /\ IsPoint(q[k + 1])) => q[k] # q[k + 1]

\* C11: the list to_pwl_path returns for a polygon without a repeated vertex
\* never holds the same point twice in a row: the point an arc ends in and
\* the next element starts in is emitted once.
C11_PwlPathHasNoRepeatedPoint ==
    (op = "to_pwl_path" /\ pc = "returned" /\ NoRepeatedVertex(sp.points)) =>
        \A j \in 1..(Len(result) - 1) : result[j] # result[j + 1]

\* where an element starts: a Point in itself
StartOf(e) == IF IsArc(e) THEN ArcStart(e) ELSE e

\* the entries of the elements k.. of q, as the exact path is described: the
\* end of the arc before it when element k does not start there, the entry
\* of element k, and after the last element the end of the arc it is
RECURSIVE ExactPath(_, _)
ExactPath(q, k) ==
    IF k > Len(q)
    THEN IF Len(q) > 0 /\ IsArc(q[Len(q)]) THEN <<Xy(ArcEnd(q[Len(q)]))>> ELSE << >>
    ELSE (IF k > 1 /\ IsArc(q[k - 1]) /\ PointNe(StartOf(q[k]), ArcEnd(q[k - 1]))
          THEN <<Xy(ArcEnd(q[k - 1]))>> ELSE << >>)
         \o (IF IsArc(q[k])
             THEN <<<<ArcStart(q[k]).x, ArcStart(q[k]).y, R(0), R(0), ArcBulge(q[k])>>>>
             ELSE <<Xy(q[k])>>)
         \o ExactPath(q, k + 1)

\* C12: the list to_poly_path returns holds, in element order, (x, y, 0, 0,
\* bulge) at the start of each Arc and (x, y) for each Point, the end of the
\* arc before an element exactly when the element does not start there, and
\* the end of the last arc when the polygon ends with an Arc.
C12_PolyPathFollowsTheElements ==
    (op = "to_poly_path" /\ pc = "returned") => result = ExactPath(sp.points, 1)

\* an arc, a point away from its end, and an arc: a connector after the
\* first arc, none before the second, and the end of the second arc
C12_Witness ==
    /\ op = "to_poly_path"
    /\ pc = "returned"
    /\ Len(sp.points) = 3
    /\ IsArc(sp.points[1]) /\ IsPoint(sp.points[2]) /\ IsArc(sp.points[3])
    /\ PointNe(sp.points[2], ArcEnd(sp.points[1]))
    /\ Len(result) = 5

\* an element moved by an offset: the point or the center is shifted
Shifted(e, o) ==
    IF IsArc(e) THEN Arc(PointAdd(e.center, o), e.radius, e.start_angle, e.end_angle)
                ELSE Point(RAdd(e.x, o.x), RAdd(e.y, o.y))

\* an element multiplied by a number: the point or the center is multiplied
\* by it and the radius by its magnitude
Scaled(e, s) ==
    IF IsArc(e)
    THEN Arc(Point(RMul(s, e.center.x), RMul(s, e.center.y)), RMul(RAbs(s), e.radius),
             e.start_angle, e.end_angle)
    ELSE Point(RMul(s, e.x), RMul(s, e.y))

\* C13: Polygon + offset and Polygon * scalar return a Polygon of as many
\* elements in the same order with the same layer, width and fill, every
\* element shifted by the offset, respectively multiplied by the scalar.
C13_TransformIsUniform ==
    (op \in { "Polygon.__add__", "Polygon.__mul__" } /\ pc # "enter") =>
        /\ pc = "returned"
        /\ result.layer = sp.layer /\ result.width = sp.width /\ result.fill = sp.fill
        /\ Len(result.pts) = Len(sp.points)
        /\ \A k \in 1..Len(sp.points) :
              result.pts[k] = IF op = "Polygon.__add__" THEN Shifted(sp.points[k], sp.other)
                                                        ELSE Scaled(sp.points[k], sp.other)

\* 2 * sagitta / chord_length, the sagitta the signed distance of mid from
\* the chord from start to end: twice the cross product over the square of
\* the chord
BulgeOf(start, mid, end) ==
    RDiv(RMul(R(2), Cross(mid, start, end)), Norm2(PointSub(end, start)))

\* C14: every constructed Arc has the attributes start, mid, end and bulge,
\* and its bulge is 2 * sagitta / chord_length when it has a chord.
C14_ArcHasItsDerivedFields ==
    (op = "Arc" /\ self # None) =>
        /\ { "start", "mid", "end", "bulge" } \subseteq DOMAIN self
        /\ self.start # self.end => self.bulge = BulgeOf(self.start, self.mid, self.end)

\* C15: exactly one of rotates_clockwise() and rotates_counterclockwise() is
\* true of an Arc: clockwise iff end_angle < start_angle, counter-clockwise
\* otherwise.
C15_DirectionIsDecided ==
    (op = "Arc" /\ pc = "asked") =>
        /\ result.clockwise <=> AngLt(sp.end_angle, sp.start_angle)
        /\ result.counterclockwise <=> ~AngLt(sp.end_angle, sp.start_angle)

\* C16: an Arc of radius <= 0 is not constructed, and interpolate returns no
\* points for it.
C16_DegenerateArcIsRefused ==
    (op = "Arc" /\ RLe(sp.radius, R(0))) => (self = None /\ pc # "interpolated")

\* |a - b| < 1 / RelTolInv, the tolerance taken as an absolute one
WithinTolerance(a, b) ==
    \/ a = b
    \/ Abs(a.n * b.d - b.n * a.d) < ((a.d * b.d - 1) \div RelTolInv) + 1

\* C17: two Points whose x and whose y differ by less than the tolerance
\* compare equal, and != is the negation of ==.
C17_EqualityIsAbsolute ==
    (op = "Point.__eq__" /\ pc = "returned") =>
        /\ (WithinTolerance(sp.self.x, sp.other.x) /\ WithinTolerance(sp.self.y, sp.other.y))
               => result.eq
        /\ result.ne <=> ~result.eq

\* C18: TopTurn, BottomTurn and InnerTurn called with outer_radius <=
\* inner_radius raise before an arc or the polygon is made.
C18_TurnRadiiAreChecked ==
    (op = "Turn" /\ RLe(sp.outer_radius, sp.inner_radius)) =>
        /\ self = None
        /\ pc \in { "enter", "raised" }

\* floor(q)
Floor(q) == IF q.n >= 0 THEN q.n \div q.d ELSE -((-q.n + q.d - 1) \div q.d)

\* floor(arc_length / (drill + min_spacing)), arc_length = inner_radius *
\* |end_angle - start_angle|
ViasThatFit(a) ==
    Floor(RDiv(RMul(a.inner_radius, RAbs(RSub(a.end_angle, a.start_angle))),
               RAdd(a.drill, min_spacing)))

\* C19: ViaStrip makes floor(arc_length / (drill + min_spacing)) vias, via k
\* at start_angle + (k - 1/2) increments of (end_angle - start_angle) /
\* count, and raises when that number is zero.
C19_ViasFillTheStrip ==
    (op = "ViaStrip" /\ pc \in { "constructed", "raised" }) =>
        LET count == ViasThatFit(sp)
        IN  IF count = 0
            THEN pc = "raised"
            ELSE /\ pc = "constructed"
                 /\ Len(self.vias) = count
                 /\ \A k \in 1..count :
                       /\ self.vias[k].at.angle =
                              RAdd(sp.start_angle,
                                   RMul(Rat(2 * k - 1, 2 * count),
                                        RSub(sp.end_angle, sp.start_angle)))
                       /\ self.vias[k].at.radius = RAdd(sp.inner_radius, RDiv(sp.size, R(2)))

\* footprint.contents
ContentsOf(memory, footprint) == memory[footprint.contents]

\* C20: a Footprint made without contents has an empty contents list
\* whatever was made or appended before it, and an append to the contents of
\* one footprint leaves the contents of every other footprint as they were.
C20_FootprintsShareNothing ==
    [][/\ (op = "Footprint" /\ pc' = "default") =>
            ContentsOf(loc', self'[Len(self')]) = << >>
       /\ (op = "Footprint" /\ pc' = "appended") =>
            \A g \in 1..Len(self) :
                g # result' => ContentsOf(loc', self'[g]) = ContentsOf(loc, self[g])]_vars

\* C21: the expression of a Pad, Via, Reference or Value shows size, drill,
\* font size and thickness with the values given at construction, and a Pad
\* made without a drill shows no drill clause.
C21_NumbersAreRenderedAsGiven ==
    (op = "__str__" /\ pc = "returned") =>
        /\ sp.cls = "Pad" =>
              /\ result.size = <<sp.size, sp.size>>
              /\ IF sp.drill = None
                 THEN "drill" \notin DOMAIN result
                 ELSE "drill" \in DOMAIN result /\ result.drill = <<sp.drill>>
        /\ sp.cls = "Via" =>
              result.size = <<sp.size>> /\ result.drill = <<sp.drill>>
        /\ sp.cls \in { "Reference", "Value" } =>
              /\ result.size = <<sp.font_size, sp.font_size>>
              /\ result.thickness = <<sp.thickness>>

\* the point lies strictly inside the circle of the arc
StrictlyInside(p, a) == RLt(Norm2(PointSub(p, a.center)), RMul(a.radius, a.radius))

\* C22: the center of a fillet smooth_point_to_arc returns is at distance
\* arc.radius - radius from arc.center when the point lies strictly inside
\* the circle of the arc, and at distance arc.radius + radius otherwise.
C22_InsideIsInsideTheCircle ==
    (op = "smooth_point_to_arc" /\ pc = "returned" /\ IsCorner(result)) =>
        LET d2 == Norm2(PointSub(result.center, arc.center))
            lo == RSub(arc.radius, radius)
            hi == RAdd(arc.radius, radius)
        IN  IF StrictlyInside(point, arc) THEN d2 = RMul(lo, lo)
                                          ELSE d2 = RMul(hi, hi)

\* C23: a fillet smooth_point_to_arc returns rotates clockwise (start_angle
\* > end_angle) when the corner has positive orientation and counter-
\* clockwise (start_angle < end_angle) when it has negative orientation.
C23_FilletRotatesAsItsOrientation ==
    (op = "smooth_point_to_arc" /\ pc = "returned" /\ IsCorner(result)) =>
        IF SpaHead(point, arc, radius).positive_orientation
        THEN AngGt(result.start_angle, result.end_angle)
        ELSE AngLt(result.start_angle, result.end_angle)

\* a fillet is returned whose angles, as computed, rotated the other way,
\* and one of them was moved by 2*pi
C23_Witness ==
    /\ op = "smooth_point_to_arc"
    /\ pc = "returned"
    /\ IsCorner(result)
    /\ LET h == SpaHead(point, arc, radius)
           t == SpaTail(h, arc, radius)
       IN  /\ h.positive_orientation
           /\ ~AngGt(t.start_angle, t.end_angle)
           /\ <<result.start_angle, result.end_angle>> # <<t.start_angle, t.end_angle>>

\* t is on the circle of o, rotates as o does and spans no more than o
SubArc(t, o) ==
    /\ SameCircle(t, o)
    /\ rotates_clockwise(t) = rotates_clockwise(o)
    /\ AngLe(Span(t), Span(o))

\* C24: in what round_corner returns, a trimmed arc1 is a sub-arc of arc1
\* that keeps its start_angle and a trimmed arc2 is a sub-arc of arc2 that
\* keeps its end_angle.
C24_TrimmedArcsAreSubArcs ==
    \A k \in 1..Len(calls) :
        (calls[k].exc = "none" /\ IsArc(calls[k].arc1) /\ IsArc(calls[k].arc2)) =>
            LET out == calls[k].arcs
            IN  /\ out[1] # calls[k].arc1 =>
                      /\ SubArc(out[1], calls[k].arc1)
                      /\ out[1].start_angle = calls[k].arc1.start_angle
                /\ Last(out) # calls[k].arc2 =>
                      /\ SubArc(Last(out), calls[k].arc2)
                      /\ Last(out).end_angle = calls[k].arc2.end_angle

\* C25: smooth_polygon called with a positive radius on a polygon of two or
\* more elements, some of them Points, returns a Polygon and does not raise.
C25_PointsAreAccepted ==
    (/\ op = "smooth_polygon"
     /\ pc \in { "returned", "raised" }
     /\ RadiusAccepted(radius)
     /\ \E k \in 1..Len(polygon) : IsPoint(polygon[k])) =>
        pc = "returned"

\* C26: Arc.interpolate returns after finitely many turns of its loop,
\* whatever the arc and max_angle, max_angle <= 0 included: every turn of the
\* loop moves angle by the same amount, so it must move it towards
\* end_angle, up on a counterclockwise arc and down on a clockwise one.
C26_EveryTurnComesCloser ==
    [][(op = "interpolate" /\ pc = "loop" /\ pc' = "loop") =>
          IF rotates_counterclockwise(arc) THEN AngGt(angle', angle)
                                           ELSE AngLt(angle', angle)]_vars

\* C27: a fillet round_corner asks smooth_point_to_arc for, at a junction of
\* two arcs it judged not continuous, is an Arc and never the absent result:
\* no call of round_corner on two arcs ends in the AttributeError of a
\* missing fillet.
C27_AskedFilletIsNeverAbsent ==
    \A k \in 1..Len(calls) :
        (IsArc(calls[k].arc1) /\ IsArc(calls[k].arc2)) =>
            calls[k].exc # "AttributeError"

\* a call that judged both sides of its junction not continuous, asked for
\* both fillets and got them
C27_Witness ==
    \E k \in 1..Len(calls) :
        /\ calls[k].exc = "none"
        /\ Len(calls[k].arcs) = 4
        /\ ~ContinuousFromArc1(calls[k].arc1, calls[k].arc2)
        /\ ~ContinuousToArc2(calls[k].arc1, calls[k].arc2)

\* C28: smooth_polygon called with a positive radius on a polygon of fewer
\* than two elements raises IndexError, returns no Polygon and makes no call
\* of round_corner, so it never pairs the one element with itself.
C28_ShortPolygonRaisesIndexError ==
    (/\ op = "smooth_polygon"
     /\ RadiusAccepted(radius)
     /\ Len(polygon) < 2) =>
        /\ calls = << >>
        /\ result = None
        /\ pc \in { "enter", "loop", "raised" }
        /\ pc = "raised" => exc = "IndexError"

\* the call on a polygon of one arc has raised
C28_Witness ==
    /\ op = "smooth_polygon"
    /\ RadiusAccepted(radius)
    /\ Len(polygon) = 1
    /\ IsArc(polygon[1])
    /\ pc = "raised"
    /\ exc = "IndexError"

\* the winding of the Cffc has been built and stored
WindingBuilt == op = "Cffc" /\ "winding" \in DOMAIN self

\* C29: the Winding that a Cffc with number_turns = n builds has n + 1
\* layers; its turns are, in order, a TopTurn on F.Cu, n - 1 InnerTurns on
\* In1.Cu .. In(n-1).Cu and a BottomTurn on B.Cu; it has exactly n via
\* strips, and the vias of strip k are on the layers of turns k and k + 1
C29_WindingHasOneTurnPerLayer ==
    WindingBuilt =>
        LET n == sp.number_turns
            w == self.winding
        IN  /\ w.number_layers = n + 1
            /\ Len(w.turns) = n + 1
            /\ w.turns[1].cls = "TopTurn" /\ w.turns[1].layer = "F.Cu"
            /\ \A k \in 1..(n - 1) :
                   /\ w.turns[k + 1].cls = "InnerTurn"
                   /\ w.turns[k + 1].layer = "In" \o ToString(k) \o ".Cu"
            /\ w.turns[n + 1].cls = "BottomTurn" /\ w.turns[n + 1].layer = "B.Cu"
            /\ Len(w.viastrips) = n
            /\ \A k \in 1..n :
                   /\ Len(w.viastrips[k].vias) >= 1
                   /\ \A j \in DOMAIN w.viastrips[k].vias :
                          w.viastrips[k].vias[j].layers
                              = <<w.turns[k].layer, w.turns[k + 1].layer>>

\* a Cffc of three turns is constructed: two inner turns and three via strips
C29_Witness ==
    /\ op = "Cffc"
    /\ pc = "constructed"
    /\ sp.number_turns = 3
    /\ self.winding.turns[3].layer = "In2.Cu"
    /\ Len(self.winding.viastrips) = 3

\* the instances the process has made
Instances == IF op = "tstamp" /\ pc # "import" THEN self ELSE << >>

\* C30: the default tstamp of a class is generated once, when the class is
\* defined: the instances of a class that were given no tstamp all carry
\* that one value, which no other class and no given tstamp shares, and a
\* polygon made by __add__, __mul__ or smooth_polygon carries the default of
\* Polygon, which is not the tstamp its source was given
C30_DefaultTstampIsSharedByTheClass ==
    /\ \A k \in DOMAIN Instances :
           ~Instances[k].given =>
               /\ Instances[k].tstamp = loc.defaults[Instances[k].cls]
               /\ Instances[k].tstamp <= Len(TstampClasses)
    /\ \A k, j \in DOMAIN Instances :
           (~Instances[k].given /\ ~Instances[j].given) =>
               (Instances[k].tstamp = Instances[j].tstamp
                    <=> Instances[k].cls = Instances[j].cls)
    /\ \A k \in DOMAIN Instances :
           Instances[k].from # 0 =>
               /\ ~Instances[k].given
               /\ Instances[k].tstamp = loc.defaults["Polygon"]
               /\ Instances[Instances[k].from].given =>
                      Instances[k].tstamp # Instances[Instances[k].from].tstamp

\* a polygon was given a tstamp and another polygon was derived from it
C30_Witness ==
    /\ Len(Instances) = 2
    /\ Instances[1].cls = "Polygon" /\ Instances[1].given
    /\ Instances[2].from = 1
    /\ Instances[2].tstamp # Instances[1].tstamp

=============================================================================
